---- MODULE Spec2Model ----
(***************************************************************************)
(* A model of the text core of sec_edgar_mcp: SECDocumentParser           *)
(* (document_parser.py) and its caller stream_filing_txt_chunks            *)
(* (server.py).                                                            *)
(*                                                                         *)
(* Strings are sequences of one-character strings.  Offsets are Python's  *)
(* (0-based, half-open), so content[i:j] is SubSeq(content, i+1, j).       *)
(***************************************************************************)
EXTENDS Integers, Sequences, FiniteSets, TLC

VARIABLES
    \* chunk_content (document_parser.py:463-505): arguments and locals
    content, chunk_size, overlap_size, start, chunks, chunk_index, pc, iters

VARIABLES
    \* extract_sections (432-461), chunk_by_sections (507-547) and
    \* stream_filing_txt_chunks (server.py:345-431): arguments, locals, results
    text, text_content, section_matches, sections, all_chunks, by_chunk_size,
    by_overlap_size, response, spc

chunkVars == <<content, chunk_size, overlap_size, start, chunks, chunk_index, pc, iters>>

sectVars == <<text, text_content, section_matches, sections, all_chunks, by_chunk_size,
              by_overlap_size, response, spc>>

VARIABLES
    \* get_document_info_from_txt (386-430), extract_main_document_from_txt
    \* (166-278), extract_best_content_from_txt (280-384): the argument, the
    \* local list documents, the value returned and which call has returned
    txt_content, documents, result, dpc

demuxVars == <<txt_content, documents, result, dpc>>

VARIABLES
    \* FinancialTools._extract_xbrl_concept_value (tools/financial.py 787-877)
    \* and _get_xbrl_concept (629-659): the arguments, the value returned by
    \* the first, the value returned by the second, and which has returned
    filing_content, concept, extracted_value, xbrl_concept, xpc

xbrlVars == <<filing_content, concept, extracted_value, xbrl_concept, xpc>>

VARIABLES
    \* the segment resolver, get_company_specific_concepts_tool (server.py
    \* 1259-1426), get_segment_revenue_data_tool (1611-1853) and
    \* get_segment_breakdown_tool (1856-2042): the content fetch_filing_txt
    \* returns, the concept_filter argument, the tool called and what it
    \* returned
    seg_content, concept_filter, seg_tool, seg_result

segVars == <<seg_content, concept_filter, seg_tool, seg_result>>

VARIABLES
    \* the company facts endpoints get_company_facts_summary_tool (server.py
    \* 750-807), get_company_facts_concepts_tool (810-904) and
    \* list_company_facts_concepts_tool (907-976): the cik argument, what the
    \* request to the SEC gives, the tool called, whether it returned or
    \* raised, and what it returned
    ep_cik, ep_response, ep_tool, ep_outcome, ep_result

epVars == <<ep_cik, ep_response, ep_tool, ep_outcome, ep_result>>

VARIABLES
    \* a client that reads a filing page by page with
    \* stream_filing_txt_chunks_tool (server.py 345-424): the max_chunks it
    \* asks with, the chunks it has received, the requests it has made, and
    \* where it is (idle, start, paging, done)
    pg_max_chunks, pg_received, pg_requests, pg_state

pagingVars == <<pg_max_chunks, pg_received, pg_requests, pg_state>>

VARIABLES
    \* a TickerCache (utils/cache.py): its _cache, the fetches it has made,
    \* the call made last with its ticker argument, whether the call
    \* returned or raised, and what it returned
    tc_cache, tc_fetches, tc_call, tc_ticker, tc_outcome, tc_result

tickerVars == <<tc_cache, tc_fetches, tc_call, tc_ticker, tc_outcome, tc_result>>

moreVars == <<epVars, pagingVars, tickerVars>>

vars == <<chunkVars, sectVars, demuxVars, xbrlVars, segVars, moreVars>>

-----------------------------------------------------------------------------
(* Bounds of the model *)

\* chunk_content inputs are concatenations of at most MaxPieces pieces
MaxPieces == 4
\* chunk_size and overlap_size range over -NegParam .. MaxChunk
NegParam == 1
MaxChunk == 5
\* a chunk_size wide enough for a sentence break to end a window before overlap_size
WideChunk == 9
\* extract_sections inputs are concatenations of at most MaxFragments fragments
MaxFragments == 3
\* a submission holds at most MaxDocs blocks
MaxDocs == 2
\* a filing holds at most MaxElements fact tags and context blocks
MaxElements == 3
\* a filing of the segment resolver holds up to MaxSegmentFacts fact tags
MaxSegmentFacts == 2
\* stream_filing_txt_chunks is asked for the first and the second page of
\* 1 .. MaxPage chunks
MaxPage == 2
\* a TickerCache fetches the mapping at most MaxFetches times
MaxFetches == 4

\* no call of the section operations in progress
IdleSect ==
    /\ text = <<>>
    /\ text_content = <<>>
    /\ section_matches = <<>>
    /\ sections = <<>>
    /\ all_chunks = <<>>
    /\ by_chunk_size = 0
    /\ by_overlap_size = 0
    /\ response = [success |-> FALSE]
    /\ spc = "idle"

\* no call of the demultiplexer or the selector in progress
IdleDemux ==
    /\ txt_content = <<>>
    /\ documents = <<>>
    /\ result = <<>>
    /\ dpc = "idle"

\* no call of the fact extractor in progress
IdleXbrl ==
    /\ filing_content = <<>>
    /\ concept = <<>>
    /\ extracted_value = [source |-> "None"]
    /\ xbrl_concept = [source |-> "None"]
    /\ xpc = "idle"

\* no call of the segment resolver in progress
IdleSeg ==
    /\ seg_content = <<>>
    /\ concept_filter = <<>>
    /\ seg_tool = "none"
    /\ seg_result = [success |-> FALSE]

IdleEndpoints ==
    /\ ep_cik = <<>>
    /\ ep_response = [status |-> "none"]
    /\ ep_tool = "none"
    /\ ep_outcome = "idle"
    /\ ep_result = [success |-> FALSE]

\* no client is reading a filing page by page
IdlePaging ==
    /\ pg_max_chunks = 0
    /\ pg_received = <<>>
    /\ pg_requests = 0
    /\ pg_state = "idle"

\* no TickerCache in use
IdleTicker ==
    /\ tc_cache = [loaded |-> FALSE]
    /\ tc_fetches = 0
    /\ tc_call = "none"
    /\ tc_ticker = <<>>
    /\ tc_outcome = "idle"
    /\ tc_result = [type |-> "null"]

IdleMore == IdleEndpoints /\ IdlePaging /\ IdleTicker

-----------------------------------------------------------------------------
(* Python built-ins, as the code uses them *)

Min(a, b) == IF a <= b THEN a ELSE b
Max(a, b) == IF a >= b THEN a ELSE b

\* the whitespace characters of the model's alphabet (str.strip, str.split, \s)
Whitespace == {" ", "\n"}

\* an index of a slice, as Python normalises it against a length n
PyIndex(i, n) == IF i < 0 THEN Max(i + n, 0) ELSE Min(i, n)

\* s[i:j]
Slice(s, i, j) ==
    LET a == PyIndex(i, Len(s))
        b == PyIndex(j, Len(s))
    IN  IF a >= b THEN <<>> ELSE SubSeq(s, a + 1, b)

\* the number of whitespace characters at the front of s, from index i on
RECURSIVE LeadingWs(_, _)
LeadingWs(s, i) ==
    IF i <= Len(s) /\ s[i] \in Whitespace THEN 1 + LeadingWs(s, i + 1) ELSE 0

\* the number of whitespace characters at the back of s, from index i down
RECURSIVE TrailingWs(_, _)
TrailingWs(s, i) ==
    IF i >= 1 /\ s[i] \in Whitespace THEN 1 + TrailingWs(s, i - 1) ELSE 0

\* s.strip()
Strip(s) ==
    IF LeadingWs(s, 1) = Len(s) THEN <<>>
    ELSE SubSeq(s, LeadingWs(s, 1) + 1, Len(s) - TrailingWs(s, Len(s)))

\* len(s.split()): the number of maximal runs of non-whitespace characters
WordCount(s) ==
    Cardinality({i \in 1..Len(s) :
        /\ s[i] \notin Whitespace
        /\ (i = 1 \/ s[i-1] \in Whitespace)})

\* the highest offset k, a <= k <= hi, at which sub lies in s, or -1
RECURSIVE RFindFrom(_, _, _, _)
RFindFrom(s, sub, a, hi) ==
    IF hi < a THEN -1
    ELSE IF SubSeq(s, hi + 1, hi + Len(sub)) = sub THEN hi
    ELSE RFindFrom(s, sub, a, hi - 1)

\* s.rfind(sub, i, j): the highest offset of sub inside s[i:j], or -1
RFind(s, sub, i, j) ==
    RFindFrom(s, sub, PyIndex(i, Len(s)), PyIndex(j, Len(s)) - Len(sub))

-----------------------------------------------------------------------------
(* DocumentChunk and one iteration of chunk_content's loop *)

ParaBreak == <<"\n", "\n">>
SentBreak == <<".", " ">>

\* DocumentChunk.__init__
DocumentChunk(c, name, index, meta) ==
    [content |-> c, section_name |-> name, chunk_index |-> index,
     metadata |-> meta, word_count |-> WordCount(c), char_count |-> Len(c)]

\* a chunker that snaps to a break wherever it lies in the window
ChunkEnd_AnyBreak(c, cs, st) ==
    LET end == Min(st + cs, Len(c))
    IN  IF end < Len(c)
        THEN LET para_break == RFind(c, ParaBreak, st, end)
             IN  IF para_break > st
                 THEN para_break + 2
                 ELSE LET sent_break == RFind(c, SentBreak, st, end)
                      IN  IF sent_break > st
                          THEN sent_break + 2
                          ELSE end
        ELSE end

\* a chunker whose window is one character wider than chunk_size
ChunkEnd_Inclusive(c, cs, st) ==
    LET end == Min(st + cs + 1, Len(c))
    IN  IF end < Len(c)
        THEN LET para_break == RFind(c, ParaBreak, st, end)
             IN  IF para_break > st + (cs \div 2)
                 THEN para_break + 2
                 ELSE LET sent_break == RFind(c, SentBreak, st, end)
                      IN  IF sent_break > st + (cs \div 2)
                          THEN sent_break + 2
                          ELSE end
        ELSE end

\* lines 473-485: the end offset of the chunk that starts at st
ChunkEnd(c, cs, st) ==
    LET end == Min(st + cs, Len(c))
    IN  IF end < Len(c)
        THEN LET para_break == RFind(c, ParaBreak, st, end)
             IN  IF para_break > st + (cs \div 2)
                 THEN para_break + 2
                 ELSE LET sent_break == RFind(c, SentBreak, st, end)
                      IN  IF sent_break > st + (cs \div 2)
                          THEN sent_break + 2
                          ELSE end
        ELSE end

\* line 487: the text of the chunk
ChunkText(c, st, end) == Strip(Slice(c, st, end))

\* a chunker that steps back by the overlap without the guard of line 501
NextStart_NoGuard(end, ov, st) == end - ov

\* line 501: the next start offset
NextStart(end, ov, st) == Max(end - ov, st + 1)

\* a chunker that keeps a chunk whatever its text
AppendChunk_NoCheck(cks, c, name, index, st, end) ==
    Append(cks, DocumentChunk(ChunkText(c, st, end), name, index,
              [start_pos |-> st, end_pos |-> end, total_length |-> Len(c)]))

\* lines 489-498: the chunk list after the iteration that starts at st
AppendChunk(cks, c, name, index, st, end) ==
    LET chunk_text == ChunkText(c, st, end)
    IN  IF chunk_text # <<>>
        THEN Append(cks, DocumentChunk(chunk_text, name, index,
                        [start_pos |-> st, end_pos |-> end, total_length |-> Len(c)]))
        ELSE cks

\* line 498: the ordinal of the next chunk
NextIndex(c, index, st, end) ==
    IF ChunkText(c, st, end) # <<>> THEN index + 1 ELSE index

\* the loop of lines 471-503, run from start offset st to its end
RECURSIVE ChunkLoop(_, _, _, _, _, _, _)
ChunkLoop(c, cs, ov, name, st, cks, index) ==
    IF ~(st < Len(c)) THEN cks
    ELSE LET end == ChunkEnd(c, cs, st)
             next == NextStart(end, ov, st)
             cks2 == AppendChunk(cks, c, name, index, st, end)
         IN  IF next >= Len(c) THEN cks2
             ELSE ChunkLoop(c, cs, ov, name, next, cks2, NextIndex(c, index, st, end))

\* chunk_content(content, chunk_size, overlap_size, section_name)
ChunkContent(c, cs, ov, name) == ChunkLoop(c, cs, ov, name, 0, <<>>, 0)

-----------------------------------------------------------------------------
(* chunk_content as a state machine: one action per loop iteration *)

Pieces == {<<"a">>, <<" ">>, <<"\n", "\n">>, <<".", " ">>}

RECURSIVE Texts(_)
Texts(n) ==
    IF n = 0 THEN {<<>>}
    ELSE Texts(n - 1) \cup {t \o p : t \in Texts(n - 1), p \in Pieces}

Params == (0 - NegParam)..MaxChunk

\* longer texts, chunked with chunk_size WideChunk: with one sentence break,
\* with one paragraph break, and with a paragraph break before a sentence break
LongTexts ==
    {[i \in 1..(k + 6) |-> IF i = k + 1 THEN "." ELSE IF i = k + 2 THEN " " ELSE "a"] :
        k \in 1..(WideChunk - 3)}
    \cup {[i \in 1..(k + 6) |-> IF i \in {k + 1, k + 2} THEN "\n" ELSE "a"] :
        k \in 1..(WideChunk - 3)}
    \cup {[i \in 1..(k + 10) |-> IF i \in {2, 3} THEN "\n"
                                ELSE IF i = k + 4 THEN "."
                                ELSE IF i = k + 5 THEN " " ELSE "a"] :
        k \in 1..(WideChunk - 6)}

WideParams == {WideChunk - 1, WideChunk}

\* no call of chunk_content in progress
IdleChunk ==
    /\ content = <<>>
    /\ chunk_size = 0
    /\ overlap_size = 0
    /\ start = 0
    /\ chunks = <<>>
    /\ chunk_index = 0
    /\ iters = 0
    /\ pc = "idle"

InitChunk ==
    /\ \/ /\ content \in Texts(MaxPieces)
          /\ chunk_size \in Params
          /\ overlap_size \in Params
       \/ /\ content \in LongTexts
          /\ chunk_size \in WideParams
          /\ overlap_size \in WideParams
    /\ start = 0
    /\ chunks = <<>>
    /\ chunk_index = 0
    /\ iters = 0
    /\ pc = "while"
    /\ IdleSect
    /\ IdleDemux
    /\ IdleXbrl
    /\ IdleSeg
    /\ IdleMore

\* the loop condition fails on entry (line 471)
ChunkLoopExit ==
    /\ pc = "while"
    /\ ~(start < Len(content))
    /\ pc' = "return"
    /\ UNCHANGED <<content, chunk_size, overlap_size, start, chunks, chunk_index, iters>>
    /\ UNCHANGED <<sectVars, demuxVars, xbrlVars, segVars, moreVars>>

\* one iteration of the loop (lines 471-503)
ChunkLoopBody ==
    /\ pc = "while"
    /\ start < Len(content)
    /\ LET end == ChunkEnd(content, chunk_size, start)
           next == NextStart(end, overlap_size, start)
       IN  /\ chunks' = AppendChunk(chunks, content, "unknown", chunk_index, start, end)
           /\ chunk_index' = NextIndex(content, chunk_index, start, end)
           /\ start' = next
           /\ pc' = IF next >= Len(content) THEN "return" ELSE "while"
    /\ iters' = iters + 1
    /\ UNCHANGED <<content, chunk_size, overlap_size>>
    /\ UNCHANGED <<sectVars, demuxVars, xbrlVars, segVars, moreVars>>

NextChunk == ChunkLoopExit \/ ChunkLoopBody

SpecChunk == InitChunk /\ [][NextChunk]_vars

-----------------------------------------------------------------------------
(* The regular expressions of section_patterns (lines 42-62) *)

Uppercase == <<"A", "B", "C", "D", "E", "F", "G", "H", "I", "J", "K", "L", "M",
               "N", "O", "P", "Q", "R", "S", "T", "U", "V", "W", "X", "Y", "Z">>
Lowercase == <<"a", "b", "c", "d", "e", "f", "g", "h", "i", "j", "k", "l", "m",
               "n", "o", "p", "q", "r", "s", "t", "u", "v", "w", "x", "y", "z">>
Digits == {"0", "1", "2", "3", "4", "5", "6", "7", "8", "9"}

\* the characters \w matches
WordChars ==
    {Uppercase[i] : i \in 1..26} \cup {Lowercase[i] : i \in 1..26} \cup Digits \cup {"_"}

LowerOf == [i \in 1..26 |-> Lowercase[i]]
UpperIndex == [ch \in {Uppercase[i] : i \in 1..26} |->
                  CHOOSE i \in 1..26 : Uppercase[i] = ch]

\* case folding of (?i) and re.IGNORECASE
Lower(ch) == IF ch \in DOMAIN UpperIndex THEN LowerOf[UpperIndex[ch]] ELSE ch

\* Each pattern as its sequence of atoms: a one-character string is a literal,
\* "WS+" is \s+, "NONWORD" is [^\w], "LAZY" is .*? and "ANY" is the dot.
section_patterns == <<
    [id |-> "item_1",
     atoms |-> <<"i", "t", "e", "m", "WS+", "1", "NONWORD", "LAZY", "b", "u", "s", "i", "n", "e", "s", "s">>],
    [id |-> "item_1a",
     atoms |-> <<"i", "t", "e", "m", "WS+", "1", "a", "NONWORD", "LAZY", "r", "i", "s", "k", "WS+", "f", "a", "c", "t", "o", "r", "s">>],
    [id |-> "item_2",
     atoms |-> <<"i", "t", "e", "m", "WS+", "2", "NONWORD", "LAZY", "p", "r", "o", "p", "e", "r", "t", "i", "e", "s">>],
    [id |-> "item_3",
     atoms |-> <<"i", "t", "e", "m", "WS+", "3", "NONWORD", "LAZY", "l", "e", "g", "a", "l", "WS+", "p", "r", "o", "c", "e", "e", "d", "i", "n", "g", "s">>],
    [id |-> "item_4",
     atoms |-> <<"i", "t", "e", "m", "WS+", "4", "NONWORD", "LAZY", "m", "i", "n", "e", "WS+", "s", "a", "f", "e", "t", "y">>],
    [id |-> "item_5",
     atoms |-> <<"i", "t", "e", "m", "WS+", "5", "NONWORD", "LAZY", "m", "a", "r", "k", "e", "t", "WS+", "f", "o", "r">>],
    [id |-> "item_6",
     atoms |-> <<"i", "t", "e", "m", "WS+", "6", "NONWORD", "LAZY", "s", "e", "l", "e", "c", "t", "e", "d", "WS+", "f", "i", "n", "a", "n", "c", "i", "a", "l">>],
    [id |-> "item_7",
     atoms |-> <<"i", "t", "e", "m", "WS+", "7", "NONWORD", "LAZY", "m", "a", "n", "a", "g", "e", "m", "e", "n", "t", "ANY", "s", "WS+", "d", "i", "s", "c", "u", "s", "s", "i", "o", "n">>],
    [id |-> "item_7a",
     atoms |-> <<"i", "t", "e", "m", "WS+", "7", "a", "NONWORD", "LAZY", "q", "u", "a", "n", "t", "i", "t", "a", "t", "i", "v", "e", "WS+", "a", "n", "d", "WS+", "q", "u", "a", "l", "i", "t", "a", "t", "i", "v", "e">>],
    [id |-> "item_8",
     atoms |-> <<"i", "t", "e", "m", "WS+", "8", "NONWORD", "LAZY", "f", "i", "n", "a", "n", "c", "i", "a", "l", "WS+", "s", "t", "a", "t", "e", "m", "e", "n", "t", "s">>],
    [id |-> "item_9",
     atoms |-> <<"i", "t", "e", "m", "WS+", "9", "NONWORD", "LAZY", "c", "o", "n", "t", "r", "o", "l", "s", "WS+", "a", "n", "d", "WS+", "p", "r", "o", "c", "e", "d", "u", "r", "e", "s">>],
    [id |-> "item_9a",
     atoms |-> <<"i", "t", "e", "m", "WS+", "9", "a", "NONWORD", "LAZY", "c", "o", "n", "t", "r", "o", "l", "s", "WS+", "a", "n", "d", "WS+", "p", "r", "o", "c", "e", "d", "u", "r", "e", "s">>],
    [id |-> "item_9b",
     atoms |-> <<"i", "t", "e", "m", "WS+", "9", "b", "NONWORD", "LAZY", "o", "t", "h", "e", "r", "WS+", "i", "n", "f", "o", "r", "m", "a", "t", "i", "o", "n">>],
    [id |-> "item_10",
     atoms |-> <<"i", "t", "e", "m", "WS+", "1", "0", "NONWORD", "LAZY", "d", "i", "r", "e", "c", "t", "o", "r", "s">>],
    [id |-> "item_11",
     atoms |-> <<"i", "t", "e", "m", "WS+", "1", "1", "NONWORD", "LAZY", "e", "x", "e", "c", "u", "t", "i", "v", "e", "WS+", "c", "o", "m", "p", "e", "n", "s", "a", "t", "i", "o", "n">>],
    [id |-> "item_12",
     atoms |-> <<"i", "t", "e", "m", "WS+", "1", "2", "NONWORD", "LAZY", "s", "e", "c", "u", "r", "i", "t", "y", "WS+", "o", "w", "n", "e", "r", "s", "h", "i", "p">>],
    [id |-> "item_13",
     atoms |-> <<"i", "t", "e", "m", "WS+", "1", "3", "NONWORD", "LAZY", "c", "e", "r", "t", "a", "i", "n", "WS+", "r", "e", "l", "a", "t", "i", "o", "n", "s", "h", "i", "p", "s">>],
    [id |-> "item_14",
     atoms |-> <<"i", "t", "e", "m", "WS+", "1", "4", "NONWORD", "LAZY", "p", "r", "i", "n", "c", "i", "p", "a", "l", "WS+", "a", "c", "c", "o", "u", "n", "t", "a", "n", "t">>],
    [id |-> "item_15",
     atoms |-> <<"i", "t", "e", "m", "WS+", "1", "5", "NONWORD", "LAZY", "e", "x", "h", "i", "b", "i", "t", "s">>]
>>

\* the number of whitespace characters of s from offset pos on
WsRun(s, pos) == LeadingWs(s, pos + 1)

\* The backtracking match of atoms[k..] at offset pos of s: the end offset of
\* the match the regex engine prefers, or -1.  \s+ is greedy, .*? is lazy and
\* the dot does not match a newline.
RECURSIVE MatchAtoms(_, _, _, _), TryGreedyWs(_, _, _, _, _), TryLazy(_, _, _, _, _)
MatchAtoms(atoms, s, k, pos) ==
    IF k > Len(atoms) THEN pos
    ELSE CASE atoms[k] = "WS+" ->
                IF WsRun(s, pos) = 0 THEN -1
                ELSE TryGreedyWs(atoms, s, k, pos, WsRun(s, pos))
           [] atoms[k] = "LAZY" -> TryLazy(atoms, s, k, pos, 0)
           [] atoms[k] = "NONWORD" ->
                IF pos < Len(s) /\ s[pos + 1] \notin WordChars
                THEN MatchAtoms(atoms, s, k + 1, pos + 1) ELSE -1
           [] atoms[k] = "ANY" ->
                IF pos < Len(s) /\ s[pos + 1] # "\n"
                THEN MatchAtoms(atoms, s, k + 1, pos + 1) ELSE -1
           [] OTHER ->
                IF pos < Len(s) /\ Lower(s[pos + 1]) = atoms[k]
                THEN MatchAtoms(atoms, s, k + 1, pos + 1) ELSE -1

TryGreedyWs(atoms, s, k, pos, j) ==
    LET r == MatchAtoms(atoms, s, k + 1, pos + j)
    IN  IF r # -1 THEN r
        ELSE IF j = 1 THEN -1
        ELSE TryGreedyWs(atoms, s, k, pos, j - 1)

TryLazy(atoms, s, k, pos, j) ==
    LET r == MatchAtoms(atoms, s, k + 1, pos + j)
    IN  IF r # -1 THEN r
        ELSE IF pos + j < Len(s) /\ s[pos + j + 1] # "\n"
        THEN TryLazy(atoms, s, k, pos, j + 1)
        ELSE -1

\* re.finditer(pattern, s): the non-overlapping matches from offset pos on,
\* leftmost first, each as its start and end offsets
RECURSIVE FindIter(_, _, _)
FindIter(atoms, s, pos) ==
    LET starts == {i \in pos..(Len(s) - 1) : MatchAtoms(atoms, s, 1, i) # -1}
    IN  IF starts = {} THEN <<>>
        ELSE LET st == CHOOSE i \in starts : \A m \in starts : i <= m
                 end == MatchAtoms(atoms, s, 1, st)
             IN  <<[start |-> st, end |-> end]>> \o FindIter(atoms, s, end)

\* re.sub(r"\s+", " ", s)
RECURSIVE CollapseWs(_, _)
CollapseWs(s, n) ==
    IF n = 0 THEN <<>>
    ELSE IF s[n] \notin Whitespace THEN Append(CollapseWs(s, n - 1), s[n])
    ELSE IF n > 1 /\ s[n - 1] \in Whitespace THEN CollapseWs(s, n - 1)
    ELSE Append(CollapseWs(s, n - 1), " ")

-----------------------------------------------------------------------------
(* extract_sections (lines 432-461) *)

\* FilingSection.__init__
FilingSection(name, c, type) ==
    [name |-> name, content |-> c, section_type |-> type,
     word_count |-> WordCount(c), char_count |-> Len(c)]

\* lines 437-441: the matches of the first n patterns, in the order found
RECURSIVE CollectMatches(_, _)
CollectMatches(s, n) ==
    IF n = 0 THEN <<>>
    ELSE LET found == FindIter(section_patterns[n].atoms, s, 0)
         IN  CollectMatches(s, n - 1) \o
             [i \in 1..Len(found) |->
                 [start |-> found[i].start,
                  section_id |-> section_patterns[n].id,
                  title |-> Slice(s, found[i].start, found[i].end)]]

\* line 444: list.sort(key=start), a stable sort
RECURSIVE SortByStart(_)
SortByStart(ms) ==
    IF ms = <<>> THEN <<>>
    ELSE LET rest == SortByStart(SubSeq(ms, 1, Len(ms) - 1))
             x == ms[Len(ms)]
             before == Cardinality({i \in 1..Len(rest) : rest[i].start <= x.start})
         IN  SubSeq(rest, 1, before) \o <<x>> \o SubSeq(rest, before + 1, Len(rest))

\* a span that stops at the end of the match instead of at the next match
SectionEnd_MatchEnd(s, ms, i) == ms[i].start + Len(ms[i].title)

\* lines 449-452: where section i ends
SectionEnd(s, ms, i) ==
    IF i + 1 <= Len(ms) THEN ms[i + 1].start ELSE Len(s)

\* lines 447-459: the sections of the sorted matches
SectionsOf(s, ms) ==
    [i \in 1..Len(ms) |->
        FilingSection(Strip(CollapseWs(ms[i].title, Len(ms[i].title))),
                      Strip(Slice(s, ms[i].start, SectionEnd(s, ms, i))),
                      ms[i].section_id)]

SectionMatches(s) == SortByStart(CollectMatches(s, Len(section_patterns)))

-----------------------------------------------------------------------------
(* chunk_by_sections (lines 507-547) *)

\* dict.update
Update(d, e) ==
    [k \in DOMAIN d \cup DOMAIN e |-> IF k \in DOMAIN e THEN e[k] ELSE d[k]]

\* a section chunker that tags every chunk as a complete section
SectionChunks_AlwaysComplete(sec, cs, ov) ==
    LET section_chunks ==
            IF Len(sec.content) <= cs THEN <<DocumentChunk(sec.content, sec.name, 0, <<>>)>>
            ELSE ChunkContent(sec.content, cs, ov, sec.name)
    IN  [i \in 1..Len(section_chunks) |->
            [section_chunks[i] EXCEPT !.metadata =
                [section_type |-> sec.section_type,
                 is_complete_section |-> TRUE,
                 word_count |-> sec.word_count,
                 char_count |-> sec.char_count]]]

\* lines 513-545: the chunks of one section
SectionChunks(sec, cs, ov) ==
    IF Len(sec.content) <= cs
    THEN <<DocumentChunk(sec.content, sec.name, 0,
              [section_type |-> sec.section_type,
               is_complete_section |-> TRUE,
               word_count |-> sec.word_count,
               char_count |-> sec.char_count])>>
    ELSE LET section_chunks == ChunkContent(sec.content, cs, ov, sec.name)
         IN  [i \in 1..Len(section_chunks) |->
                [section_chunks[i] EXCEPT !.metadata = Update(@,
                    [section_type |-> sec.section_type,
                     is_complete_section |-> FALSE,
                     total_section_chunks |-> Len(section_chunks),
                     section_word_count |-> sec.word_count,
                     section_char_count |-> sec.char_count])]]

RECURSIVE ChunkBySectionsUpTo(_, _, _, _)
ChunkBySectionsUpTo(secs, cs, ov, n) ==
    IF n = 0 THEN <<>>
    ELSE ChunkBySectionsUpTo(secs, cs, ov, n - 1) \o SectionChunks(secs[n], cs, ov)

ChunkBySections(secs, cs, ov) == ChunkBySectionsUpTo(secs, cs, ov, Len(secs))

-----------------------------------------------------------------------------
(* The whitespace clean-up of the selected document (lines 270-274, 380-382) *)

\* re.sub(r"\n\s*\n\s*\n", "\n\n", s), from offset pos on: a run of whitespace
\* is cut from its first to its last newline when it holds three or more
RECURSIVE SubNewlines(_, _)
SubNewlines(s, pos) ==
    IF pos >= Len(s) THEN <<>>
    ELSE LET newlines == {j \in pos..(pos + WsRun(s, pos) - 1) : s[j + 1] = "\n"}
         IN  IF s[pos + 1] = "\n" /\ Cardinality(newlines) >= 3
             THEN <<"\n", "\n">> \o
                  SubNewlines(s, 1 + CHOOSE j \in newlines : \A m \in newlines : j >= m)
             ELSE <<s[pos + 1]>> \o SubNewlines(s, pos + 1)

\* re.sub(r" +", " ", s)
RECURSIVE SubSpaces(_, _)
SubSpaces(s, n) ==
    IF n = 0 THEN <<>>
    ELSE IF s[n] = " " /\ n > 1 /\ s[n - 1] = " " THEN SubSpaces(s, n - 1)
    ELSE Append(SubSpaces(s, n - 1), s[n])

CleanText(s) ==
    LET t == SubNewlines(s, 0)
    IN  Strip(SubSpaces(t, Len(t)))

-----------------------------------------------------------------------------
(* stream_filing_txt_chunks (server.py:383-423), from the selected document on *)

\* the default overlap_size of chunk_by_sections (line 508), which the
\* endpoint does not override
DefaultOverlap == 200

None == "None"

\* a page whose next_start is the index of its own last chunk
Page_NextIsLast(cks, start_chunk, max_chunks) ==
    LET end_chunk == Min(start_chunk + max_chunks, Len(cks))
        page_chunks == Slice(cks, start_chunk, end_chunk)
    IN  [chunks |->
            [i \in 1..Len(page_chunks) |->
                [chunk_index |-> start_chunk + (i - 1),
                 section_name |-> page_chunks[i].section_name,
                 content |-> page_chunks[i].content,
                 word_count |-> page_chunks[i].word_count,
                 char_count |-> page_chunks[i].char_count,
                 metadata |-> page_chunks[i].metadata]],
         pagination |->
            [start_chunk |-> start_chunk,
             end_chunk |-> end_chunk - 1,
             total_chunks |-> Len(cks),
             has_next |-> end_chunk < Len(cks),
             has_prev |-> start_chunk > 0,
             next_start |-> IF end_chunk < Len(cks) THEN end_chunk - 1 ELSE None,
             prev_start |-> IF start_chunk > 0
                            THEN Max(0, start_chunk - max_chunks) ELSE None],
         success |-> TRUE]

\* lines 387-418: the page of all_chunks that starts at start_chunk
Page(cks, start_chunk, max_chunks) ==
    LET end_chunk == Min(start_chunk + max_chunks, Len(cks))
        page_chunks == Slice(cks, start_chunk, end_chunk)
    IN  [chunks |->
            [i \in 1..Len(page_chunks) |->
                [chunk_index |-> start_chunk + (i - 1),
                 section_name |-> page_chunks[i].section_name,
                 content |-> page_chunks[i].content,
                 word_count |-> page_chunks[i].word_count,
                 char_count |-> page_chunks[i].char_count,
                 metadata |-> page_chunks[i].metadata]],
         pagination |->
            [start_chunk |-> start_chunk,
             end_chunk |-> end_chunk - 1,
             total_chunks |-> Len(cks),
             has_next |-> end_chunk < Len(cks),
             has_prev |-> start_chunk > 0,
             next_start |-> IF end_chunk < Len(cks) THEN end_chunk ELSE None,
             prev_start |-> IF start_chunk > 0
                            THEN Max(0, start_chunk - max_chunks) ELSE None],
         success |-> TRUE]

-----------------------------------------------------------------------------
(* The section operations as a state machine: one action per call *)

Fragments == {
    <<"I", "t", "e", "m", " ", "1", ".", " ">>,
    <<"B", "u", "s", "i", "n", "e", "s", "s">>,
    <<"I", "T", "E", "M", " ", "1", "A", ".", " ", " ", "R", "i", "s", "k", " ",
      "F", "a", "c", "t", "o", "r", "s", " ">>,
    <<"x", ".", " ">>,
    <<"\n">>
}

RECURSIVE SectionTexts(_)
SectionTexts(n) ==
    IF n = 0 THEN {<<>>}
    ELSE SectionTexts(n - 1) \cup {t \o f : t \in SectionTexts(n - 1), f \in Fragments}

\* the chunk sizes the section operations are called with
SectChunkSizes == {0 - NegParam, 0, MaxChunk, 4 * MaxChunk}

\* the overlap sizes chunk_by_sections is called with
SectOverlaps == {0, 2, DefaultOverlap}

InitSect ==
    /\ text \in SectionTexts(MaxFragments)
    /\ text_content = <<>>
    /\ section_matches = <<>>
    /\ sections = <<>>
    /\ all_chunks = <<>>
    /\ by_chunk_size = 0
    /\ by_overlap_size = 0
    /\ response = [success |-> FALSE]
    /\ spc = "input"
    /\ IdleChunk
    /\ IdleDemux
    /\ IdleXbrl
    /\ IdleSeg
    /\ IdleMore

\* extract_sections(text)
ExtractSections ==
    /\ spc = "input"
    /\ section_matches' = SectionMatches(text)
    /\ sections' = SectionsOf(text, section_matches')
    /\ spc' = "sections"
    /\ UNCHANGED <<text, text_content, all_chunks, by_chunk_size, by_overlap_size, response>>
    /\ UNCHANGED <<chunkVars, demuxVars, xbrlVars, segVars, moreVars>>

\* chunk_by_sections(sections, cs, ov) on the sections just extracted
CallChunkBySections ==
    /\ spc = "sections"
    /\ \E cs \in SectChunkSizes, ov \in SectOverlaps :
        /\ by_chunk_size' = cs
        /\ by_overlap_size' = ov
        /\ all_chunks' = ChunkBySections(sections, cs, ov)
    /\ spc' = "chunks"
    /\ UNCHANGED <<text, text_content, section_matches, sections, response>>
    /\ UNCHANGED <<chunkVars, demuxVars, xbrlVars, segVars, moreVars>>

\* stream_filing_txt_chunks: text is the document the selector picked; the
\* endpoint cleans it, extracts its sections, chunks them and returns a page
StreamFilingTxtChunks ==
    /\ spc = "input"
    /\ text_content' = CleanText(text)
    /\ section_matches' = SectionMatches(text_content')
    /\ sections' = SectionsOf(text_content', section_matches')
    /\ by_overlap_size' = DefaultOverlap
    /\ \E cs \in SectChunkSizes :
        /\ by_chunk_size' = cs
        /\ all_chunks' = ChunkBySections(sections', cs, DefaultOverlap)
        /\ \E max_chunks \in 1..MaxPage :
            \E start_chunk \in {0, max_chunks} :
                response' = Page(all_chunks', start_chunk, max_chunks)
    /\ spc' = "response"
    /\ UNCHANGED text
    /\ UNCHANGED <<chunkVars, demuxVars, xbrlVars, segVars, moreVars>>

NextSect == ExtractSections \/ CallChunkBySections \/ StreamFilingTxtChunks

SpecSect == InitSect /\ [][NextSect]_vars

\* chunk_content on its own and the section operations, side by side
SpecChunking == (InitChunk \/ InitSect) /\ [][NextChunk \/ NextSect]_vars

-----------------------------------------------------------------------------
(* The thresholds and weights of the selector *)

\* line 237: a primary document shorter than this is a placeholder
PlaceholderChars == 500
\* lines 242 and 365: more lines than this is substantial content
ContentLines == 100
\* line 261: a document shorter than this is no document
TinyChars == 100
\* line 363
ManyLines == 1000
\* lines 353, 358, 364, 366: the bonuses of the score
TypeBonus == 1000
HtmBonus == 500
ManyLinesBonus == 300
ContentLinesBonus == 100
\* line 371: one point per CharsPerPoint characters, at most SizeCap points
CharsPerPoint == 1000
SizeCap == 200

-----------------------------------------------------------------------------
(* Submission text for the demultiplexer and the selector                   *)
(*                                                                         *)
(* The three parsers split txt_content at newlines and handle it line by   *)
(* line.  A text is held as its lines, run-length encoded: a sequence of   *)
(* [line, count], count copies of line in a row, so that a document of     *)
(* more than 1000 lines stays small.  Repeating a delimiter or metadata    *)
(* line changes nothing in any of the parsers, and count copies of a       *)
(* content line are appended (or counted) as one run.                      *)
(***************************************************************************)

Run(line, count) == [line |-> line, count |-> count]

\* s.startswith(p), s.endswith(p)
StartsWith(s, p) == Len(s) >= Len(p) /\ SubSeq(s, 1, Len(p)) = p
EndsWith(s, p) == Len(s) >= Len(p) /\ SubSeq(s, Len(s) - Len(p) + 1, Len(s)) = p

\* s.replace(sub, ""), from index i on
RECURSIVE Remove(_, _, _)
Remove(s, sub, i) ==
    IF i > Len(s) THEN <<>>
    ELSE IF i + Len(sub) - 1 <= Len(s) /\ SubSeq(s, i, i + Len(sub) - 1) = sub
    THEN Remove(s, sub, i + Len(sub))
    ELSE <<s[i]>> \o Remove(s, sub, i + 1)

\* sub in s.lower()
ContainsLower(s, sub) ==
    \E i \in 1..(Len(s) - Len(sub) + 1) :
        \A j \in 1..Len(sub) : Lower(s[i + j - 1]) = sub[j]

\* s.lstrip(), s.rstrip()
LStrip(s) == SubSeq(s, LeadingWs(s, 1) + 1, Len(s))
RStrip(s) == SubSeq(s, 1, Len(s) - TrailingWs(s, Len(s)))

IsBlank(line) == Strip(line) = <<>>

\* None, among values that are strings
NoneStr == <<"None">>

\* the truth value of an Optional[str]
Truthy(s) == s # NoneStr /\ s # <<>>

DocumentTag == <<"<", "D", "O", "C", "U", "M", "E", "N", "T", ">">>
DocumentEndTag == <<"<", "/", "D", "O", "C", "U", "M", "E", "N", "T", ">">>
TypeTag == <<"<", "T", "Y", "P", "E", ">">>
SequenceTag == <<"<", "S", "E", "Q", "U", "E", "N", "C", "E", ">">>
FilenameTag == <<"<", "F", "I", "L", "E", "N", "A", "M", "E", ">">>
DescriptionTag == <<"<", "D", "E", "S", "C", "R", "I", "P", "T", "I", "O", "N", ">">>
Unknown == <<"u", "n", "k", "n", "o", "w", "n">>
UnknownType == <<"U", "N", "K", "N", "O", "W", "N">>
HtmExtension == <<".", "h", "t", "m">>

\* line 225 and line 352: the primary form types, in the order of line 225
main_doc_types == <<<<"1", "0", "-", "Q">>, <<"1", "0", "-", "K">>, <<"1", "0", "-", "K", "/", "A">>, <<"1", "0", "-", "Q", "/", "A">>, <<"8", "-", "K">>, <<"8", "-", "K", "/", "A">>>>

\* line 338: the keywords that keep a tag-only line as content
MarkupKeywords == {<<"h", "t", "m", "l">>, <<"b", "o", "d", "y">>, <<"t", "a", "b", "l", "e">>, <<"f", "o", "r", "m">>}

\* sum of f over the runs
RECURSIVE SumCount(_, _)
SumCount(runs, n) == IF n = 0 THEN 0 ELSE SumCount(runs, n - 1) + runs[n].count

\* the runs whose line is not blank
NonBlankRuns(runs) == SelectSeq(runs, LAMBDA r : ~IsBlank(r.line))

\* line 193: len([line for line in current_doc_lines if line.strip()])
LineCount(runs) == SumCount(NonBlankRuns(runs), Len(NonBlankRuns(runs)))

\* lines 304-306: the lines that are not blank and do not start with "<"
MeaningfulRuns(runs) ==
    SelectSeq(runs, LAMBDA r : ~IsBlank(r.line) /\ ~StartsWith(Strip(r.line), <<"<">>))

MeaningfulLines(runs) == SumCount(MeaningfulRuns(runs), Len(MeaningfulRuns(runs)))

\* len("\n".join(lines))
RECURSIVE SumChars(_, _)
SumChars(runs, n) ==
    IF n = 0 THEN 0 ELSE SumChars(runs, n - 1) + runs[n].count * Len(runs[n].line)

ContentLen(runs) ==
    IF SumCount(runs, Len(runs)) = 0 THEN 0
    ELSE SumChars(runs, Len(runs)) + SumCount(runs, Len(runs)) - 1

\* the whitespace at the front of "\n".join(lines), from run i on
RECURSIVE LeadingLen(_, _)
LeadingLen(runs, i) ==
    IF i > Len(runs) THEN 0
    ELSE IF IsBlank(runs[i].line)
    THEN runs[i].count * (Len(runs[i].line) + 1) + LeadingLen(runs, i + 1)
    ELSE LeadingWs(runs[i].line, 1)

\* the whitespace at the back of "\n".join(lines), from run i down
RECURSIVE TrailingLen(_, _)
TrailingLen(runs, i) ==
    IF i < 1 THEN 0
    ELSE IF IsBlank(runs[i].line)
    THEN runs[i].count * (Len(runs[i].line) + 1) + TrailingLen(runs, i - 1)
    ELSE TrailingWs(runs[i].line, Len(runs[i].line))

\* len("\n".join(lines).strip())
StrippedLen(runs) ==
    IF NonBlankRuns(runs) = <<>> THEN 0
    ELSE ContentLen(runs) - LeadingLen(runs, 1) - TrailingLen(runs, Len(runs))

-----------------------------------------------------------------------------
(* The whitespace clean-up (lines 272-274, 380-382) on run-length encoded text *)

\* the runs from the first to the last line that is not blank
TrimBlankRuns(runs) ==
    LET keep == {i \in 1..Len(runs) : ~IsBlank(runs[i].line)}
    IN  IF keep = {} THEN <<>>
        ELSE SubSeq(runs, CHOOSE i \in keep : \A j \in keep : i <= j,
                          CHOOSE i \in keep : \A j \in keep : i >= j)

\* re.sub(r"\n\s*\n\s*\n", "\n\n", ...) between two lines that are not blank:
\* two or more blank lines in a row become one empty line, one stays
RECURSIVE CollapseBlankRuns(_, _, _, _)
CollapseBlankRuns(runs, i, pending, pending_line) ==
    IF i > Len(runs) THEN <<>>
    ELSE IF IsBlank(runs[i].line)
    THEN CollapseBlankRuns(runs, i + 1, pending + runs[i].count, runs[i].line)
    ELSE (IF pending = 0 THEN <<>>
          ELSE IF pending = 1 THEN <<Run(pending_line, 1)>>
          ELSE <<Run(<<>>, 1)>>)
         \o <<runs[i]>> \o CollapseBlankRuns(runs, i + 1, 0, <<>>)

\* text.strip() on runs that start and end with a line that is not blank
StripEnds(runs) ==
    IF runs = <<>> THEN <<>>
    ELSE IF SumCount(runs, Len(runs)) = 1 THEN <<Run(Strip(runs[1].line), 1)>>
    ELSE LET m == Len(runs)
             inner == [i \in 1..m |->
                 Run(runs[i].line,
                     runs[i].count - (IF i = 1 THEN 1 ELSE 0) - (IF i = m THEN 1 ELSE 0))]
         IN  <<Run(LStrip(runs[1].line), 1)>> \o inner \o <<Run(RStrip(runs[m].line), 1)>>

\* the same lines with equal neighbours in one run and no empty run
RECURSIVE MergeRuns(_, _)
MergeRuns(runs, n) ==
    IF n = 0 THEN <<>>
    ELSE LET rest == MergeRuns(runs, n - 1)
         IN  IF runs[n].count = 0 THEN rest
             ELSE IF rest # <<>> /\ rest[Len(rest)].line = runs[n].line
             THEN [rest EXCEPT ![Len(rest)].count = @ + runs[n].count]
             ELSE Append(rest, runs[n])

\* lines 272-274: both substitutions and the strip
CleanRuns(runs) ==
    LET spaced == [i \in 1..Len(runs) |->
                      Run(SubSpaces(runs[i].line, Len(runs[i].line)), runs[i].count)]
        core == TrimBlankRuns(spaced)
        ends == StripEnds(CollapseBlankRuns(core, 1, 0, <<>>))
    IN  MergeRuns(ends, Len(ends))

-----------------------------------------------------------------------------
(* extract_main_document_from_txt (lines 166-278) *)

\* lines 169-173: the parser's locals before the first line
ParserStart ==
    [documents |-> <<>>, current_doc_lines |-> <<>>, current_doc_type |-> NoneStr,
     current_doc_filename |-> NoneStr, in_document |-> FALSE]

\* lines 187-195: the documents after a </DOCUMENT> line
MainSave(p) ==
    IF p.current_doc_lines # <<>> /\ Truthy(p.current_doc_type)
    THEN Append(p.documents,
             [type |-> IF Truthy(p.current_doc_type) THEN p.current_doc_type ELSE UnknownType,
              filename |-> IF Truthy(p.current_doc_filename)
                           THEN p.current_doc_filename ELSE Unknown,
              content |-> p.current_doc_lines,
              line_count |-> LineCount(p.current_doc_lines)])
    ELSE p.documents

\* lines 175-219: the parser's locals after count copies of line
MainStep(p, line, count) ==
    LET line_stripped == Strip(line)
    IN  IF StartsWith(line_stripped, DocumentTag)
        THEN [p EXCEPT !.in_document = TRUE, !.current_doc_lines = <<>>,
                       !.current_doc_type = NoneStr, !.current_doc_filename = NoneStr]
        ELSE IF StartsWith(line_stripped, DocumentEndTag)
        THEN [p EXCEPT !.documents = MainSave(p), !.in_document = FALSE,
                       !.current_doc_lines = <<>>,
                       !.current_doc_type = NoneStr, !.current_doc_filename = NoneStr]
        ELSE IF ~p.in_document THEN p
        ELSE IF StartsWith(line_stripped, TypeTag)
        THEN [p EXCEPT !.current_doc_type = Strip(Remove(line_stripped, TypeTag, 1))]
        ELSE IF StartsWith(line_stripped, FilenameTag)
        THEN [p EXCEPT !.current_doc_filename = Strip(Remove(line_stripped, FilenameTag, 1))]
        ELSE IF StartsWith(line_stripped, <<"<">>) /\ EndsWith(line_stripped, <<">">>)
        THEN p
        ELSE [p EXCEPT !.current_doc_lines = Append(@, Run(line, count))]

RECURSIVE MainParse(_, _)
MainParse(txt, n) ==
    IF n = 0 THEN ParserStart
    ELSE MainStep(MainParse(txt, n - 1), txt[n].line, txt[n].count)

\* line 222: main_document = None, a content of no line at all
NoDocument == <<>>

\* the index of the first greatest of keys, the element max(docs, key=...) returns
FirstMax(keys) ==
    CHOOSE i \in 1..Len(keys) :
        /\ \A j \in 1..Len(keys) : keys[j] <= keys[i]
        /\ \A j \in 1..(i - 1) : keys[j] < keys[i]

\* lines 228-234: main_document after the first k types of main_doc_types;
\* found says that the outer loop has left at line 234
RECURSIVE ByType(_, _)
ByType(docs, k) ==
    IF k = 0 THEN [main_document |-> NoDocument, found |-> FALSE]
    ELSE LET before == ByType(docs, k - 1)
             typed == SelectSeq(docs, LAMBDA d : d.type = main_doc_types[k])
         IN  IF before.found \/ typed = <<>> THEN before
             ELSE [main_document |-> typed[1].content,
                   found |-> ContentLen(typed[1].content) > 0]

\* the truth value of main_document: not None and not the empty string
HasText(main_document) == main_document # NoDocument /\ ContentLen(main_document) > 0

\* lines 237-258: the placeholder fallback
Substantial(docs, main_document) ==
    IF HasText(main_document) /\ StrippedLen(main_document) < PlaceholderChars
    THEN LET content_docs == SelectSeq(docs, LAMBDA d : d.line_count > ContentLines)
             htm_docs == SelectSeq(content_docs,
                             LAMBDA d : EndsWith(d.filename, HtmExtension))
         IN  IF content_docs = <<>> THEN main_document
             ELSE IF htm_docs # <<>>
             THEN htm_docs[FirstMax([i \in 1..Len(htm_docs) |-> htm_docs[i].line_count])].content
             ELSE content_docs[FirstMax([i \in 1..Len(content_docs) |->
                                        content_docs[i].line_count])].content
    ELSE main_document

\* lines 261-264: the largest document when nothing good was found
Largest(docs, main_document) ==
    IF ~HasText(main_document) \/ StrippedLen(main_document) < TinyChars
    THEN IF docs # <<>>
         THEN docs[FirstMax([i \in 1..Len(docs) |-> ContentLen(docs[i].content)])].content
         ELSE main_document
    ELSE main_document

\* lines 221-278: the text returned for the documents parsed
MainSelect(docs) ==
    LET main_document ==
            Largest(docs, Substantial(docs, ByType(docs, Len(main_doc_types)).main_document))
    IN  IF ~HasText(main_document) THEN <<>> ELSE CleanRuns(main_document)

-----------------------------------------------------------------------------
(* extract_best_content_from_txt (lines 280-384) *)

\* lines 301-316: the documents after a </DOCUMENT> line
BestSave(p) ==
    IF p.current_doc_lines # <<>> /\ MeaningfulRuns(p.current_doc_lines) # <<>>
    THEN Append(p.documents,
             [type |-> IF Truthy(p.current_doc_type) THEN p.current_doc_type ELSE UnknownType,
              filename |-> IF Truthy(p.current_doc_filename)
                           THEN p.current_doc_filename ELSE Unknown,
              content |-> p.current_doc_lines,
              meaningful_lines |-> MeaningfulLines(p.current_doc_lines),
              total_chars |-> ContentLen(p.current_doc_lines)])
    ELSE p.documents

\* lines 289-342: the parser's locals after count copies of line
BestStep(p, line, count) ==
    LET line_stripped == Strip(line)
    IN  IF StartsWith(line_stripped, DocumentTag)
        THEN [p EXCEPT !.in_document = TRUE, !.current_doc_lines = <<>>,
                       !.current_doc_type = NoneStr, !.current_doc_filename = NoneStr]
        ELSE IF StartsWith(line_stripped, DocumentEndTag)
        THEN [p EXCEPT !.documents = BestSave(p), !.in_document = FALSE,
                       !.current_doc_lines = <<>>,
                       !.current_doc_type = NoneStr, !.current_doc_filename = NoneStr]
        ELSE IF ~p.in_document THEN p
        ELSE IF StartsWith(line_stripped, TypeTag)
        THEN [p EXCEPT !.current_doc_type = Strip(Remove(line_stripped, TypeTag, 1))]
        ELSE IF StartsWith(line_stripped, FilenameTag)
        THEN [p EXCEPT !.current_doc_filename = Strip(Remove(line_stripped, FilenameTag, 1))]
        ELSE IF /\ StartsWith(line_stripped, <<"<">>) /\ EndsWith(line_stripped, <<">">>)
                /\ ~\E keyword \in MarkupKeywords : ContainsLower(line_stripped, keyword)
        THEN p
        ELSE [p EXCEPT !.current_doc_lines = Append(@, Run(line, count))]

RECURSIVE BestParse(_, _)
BestParse(txt, n) ==
    IF n = 0 THEN ParserStart
    ELSE BestStep(BestParse(txt, n - 1), txt[n].line, txt[n].count)

\* a score without the bonus for a primary form type
Score_NoTypeBonus(doc) ==
    (IF EndsWith(doc.filename, HtmExtension) THEN HtmBonus ELSE 0)
    + (IF doc.meaningful_lines > ManyLines THEN ManyLinesBonus
       ELSE IF doc.meaningful_lines > ContentLines THEN ContentLinesBonus ELSE 0)
    + Min(doc.total_chars \div CharsPerPoint, SizeCap)

\* lines 349-371: the score of a document
Score(doc) ==
    (IF \E k \in 1..Len(main_doc_types) : doc.type = main_doc_types[k]
     THEN TypeBonus ELSE 0)
    + (IF EndsWith(doc.filename, HtmExtension) THEN HtmBonus ELSE 0)
    + (IF doc.meaningful_lines > ManyLines THEN ManyLinesBonus
       ELSE IF doc.meaningful_lines > ContentLines THEN ContentLinesBonus ELSE 0)
    + Min(doc.total_chars \div CharsPerPoint, SizeCap)

\* lines 348-373: every document with its score
Scored(docs) ==
    [i \in 1..Len(docs) |->
        [type |-> docs[i].type, filename |-> docs[i].filename,
         content |-> docs[i].content, meaningful_lines |-> docs[i].meaningful_lines,
         total_chars |-> docs[i].total_chars, score |-> Score(docs[i])]]

\* lines 344-384: the text returned for the documents parsed
BestSelect(docs) ==
    IF docs = <<>> THEN <<>>
    ELSE CleanRuns(docs[FirstMax([i \in 1..Len(docs) |-> Scored(docs)[i].score])].content)

-----------------------------------------------------------------------------
(* get_document_info_from_txt (lines 386-430) *)

\* lines 403-404: the records after a </DOCUMENT> line
InfoSave(p) ==
    IF DOMAIN p.current_doc_info # {}
    THEN Append(p.documents, p.current_doc_info)
    ELSE p.documents

\* the empty dict
EmptyDict == [k \in {} |-> 0]

\* lines 393-428: the parser's locals after count copies of line
InfoStep(p, line, count) ==
    LET line_stripped == Strip(line)
    IN  IF StartsWith(line_stripped, DocumentTag)
        THEN [p EXCEPT !.in_document = TRUE, !.current_doc_info = EmptyDict]
        ELSE IF StartsWith(line_stripped, DocumentEndTag)
        THEN [p EXCEPT !.documents = InfoSave(p), !.in_document = FALSE,
                       !.current_doc_info = EmptyDict]
        ELSE IF ~p.in_document THEN p
        ELSE IF StartsWith(line_stripped, TypeTag)
        THEN [p EXCEPT !.current_doc_info =
                 Update(@, [type |-> Strip(Remove(line_stripped, TypeTag, 1))])]
        ELSE IF StartsWith(line_stripped, SequenceTag)
        THEN [p EXCEPT !.current_doc_info =
                 Update(@, [sequence |-> Strip(Remove(line_stripped, SequenceTag, 1))])]
        ELSE IF StartsWith(line_stripped, FilenameTag)
        THEN [p EXCEPT !.current_doc_info =
                 Update(@, [filename |-> Strip(Remove(line_stripped, FilenameTag, 1))])]
        ELSE IF StartsWith(line_stripped, DescriptionTag)
        THEN [p EXCEPT !.current_doc_info =
                 Update(@, [description |-> Strip(Remove(line_stripped, DescriptionTag, 1))])]
        ELSE IF ~StartsWith(line_stripped, <<"<">>)
        THEN [p EXCEPT !.current_doc_info =
                 Update(@, [content_lines |->
                     (IF "content_lines" \in DOMAIN @ THEN @.content_lines ELSE 0) + count])]
        ELSE p

RECURSIVE InfoParse(_, _)
InfoParse(txt, n) ==
    IF n = 0 THEN [documents |-> <<>>, current_doc_info |-> EmptyDict, in_document |-> FALSE]
    ELSE InfoStep(InfoParse(txt, n - 1), txt[n].line, txt[n].count)

-----------------------------------------------------------------------------
(* The demultiplexer and the selector as a state machine: one action per call *)

\* the metadata lines of a block
Headers == {
    <<>>,
    <<Run(<<"<", "T", "Y", "P", "E", ">", "1", "0", "-", "K">>, 1)>>,
    <<Run(<<"<", "T", "Y", "P", "E", ">", "1", "0", "-", "K">>, 1), Run(<<"<", "S", "E", "Q", "U", "E", "N", "C", "E", ">", "1">>, 1)>>,
    <<Run(<<"<", "T", "Y", "P", "E", ">", "1", "0", "-", "K">>, 1), Run(<<"<", "F", "I", "L", "E", "N", "A", "M", "E", ">", "p", ".", "h", "t", "m">>, 1)>>,
    <<Run(<<"<", "T", "Y", "P", "E", ">", "E", "X", "-", "1", "3">>, 1)>>,
    <<Run(<<"<", "T", "Y", "P", "E", ">", "E", "X", "-", "1", "3">>, 1), Run(<<"<", "F", "I", "L", "E", "N", "A", "M", "E", ">", "r", ".", "h", "t", "m">>, 1)>>,
    <<Run(<<"<", "F", "I", "L", "E", "N", "A", "M", "E", ">", "r", ".", "h", "t", "m">>, 1)>>
}

\* the lines of a block after its metadata: nothing, a blank line, a cover
\* page, a markup document of more than ManyLines lines, a text of more than
\* ContentLines lines, and a text of more than SizeCap * CharsPerPoint characters
Bodies == {
    <<>>,
    <<Run(<<>>, 1)>>,
    <<Run(<<"<", "T", "E", "X", "T", ">">>, 1), Run(<<"C", "o", "v", "e", "r", " ", "p", "a", "g", "e">>, 1)>>,
    <<Run(<<"<", "h", "t", "m", "l", ">">>, 1), Run(<<"B", "o", "d", "y", " ", " ", "t", "e", "x", "t", ".">>, ManyLines + 1),
      Run(<<>>, 3), Run(<<" ", "E", "n", "d", ".", " ">>, 1), Run(<<>>, 1)>>,
    <<Run(<<"L", "i", "n", "e", ".">>, ContentLines + 1)>>,
    <<Run(<<"A", " ", "l", "o", "n", "g", " ", "l", "i", "n", "e", " ", "o", "f", " ", "t", "e", "x", "t", ".">>, 10 * (ManyLines + 1))>>
}

\* the blocks of a submission: complete ones, and two that are never closed
Blocks ==
    {<<Run(DocumentTag, 1)>> \o h \o b \o <<Run(DocumentEndTag, 1)>> :
        h \in Headers, b \in Bodies}
    \cup {<<Run(DocumentTag, 1)>>,
          <<Run(DocumentTag, 1), Run(<<"<", "T", "Y", "P", "E", ">", "1", "0", "-", "K">>, 1), Run(<<"C", "o", "v", "e", "r", " ", "p", "a", "g", "e">>, 1)>>}

RECURSIVE Submissions(_)
Submissions(n) ==
    IF n = 0 THEN {<<>>}
    ELSE Submissions(n - 1) \cup {s \o b : s \in Submissions(n - 1), b \in Blocks}

InitDemux ==
    /\ txt_content \in Submissions(MaxDocs)
    /\ documents = <<>>
    /\ result = <<>>
    /\ dpc = "input"
    /\ IdleChunk
    /\ IdleSect
    /\ IdleXbrl
    /\ IdleSeg
    /\ IdleMore

\* get_document_info_from_txt(txt_content)
GetDocumentInfoFromTxt ==
    /\ dpc = "input"
    /\ documents' = InfoParse(txt_content, Len(txt_content)).documents
    /\ result' = documents'
    /\ dpc' = "info"
    /\ UNCHANGED txt_content
    /\ UNCHANGED <<chunkVars, sectVars, xbrlVars, segVars, moreVars>>

\* extract_main_document_from_txt(txt_content)
ExtractMainDocumentFromTxt ==
    /\ dpc = "input"
    /\ documents' = MainParse(txt_content, Len(txt_content)).documents
    /\ result' = MainSelect(documents')
    /\ dpc' = "main"
    /\ UNCHANGED txt_content
    /\ UNCHANGED <<chunkVars, sectVars, xbrlVars, segVars, moreVars>>

\* extract_best_content_from_txt(txt_content)
ExtractBestContentFromTxt ==
    /\ dpc = "input"
    /\ documents' = Scored(BestParse(txt_content, Len(txt_content)).documents)
    /\ result' = BestSelect(BestParse(txt_content, Len(txt_content)).documents)
    /\ dpc' = "best"
    /\ UNCHANGED txt_content
    /\ UNCHANGED <<chunkVars, sectVars, xbrlVars, segVars, moreVars>>

NextDemux == GetDocumentInfoFromTxt \/ ExtractMainDocumentFromTxt \/ ExtractBestContentFromTxt

SpecDemux == InitDemux /\ [][NextDemux]_vars

-----------------------------------------------------------------------------
(* Inline XBRL content: the elements of a filing in document order. An     *)
(* element is its tag name, its attributes in the order written, its text    *)
(* and, for a context block, the elements inside it.                        *)

Attr(a, v) == [attr |-> a, value |-> v]

Element(tag, attrs, body, items) ==
    [tag |-> tag, attrs |-> attrs, body |-> body, items |-> items]

\* s.lower()
LowerSeq(s) == [i \in 1..Len(s) |-> Lower(s[i])]

\* sub in s
Contains(s, sub) ==
    \E i \in 0..(Len(s) - Len(sub)) : SubSeq(s, i + 1, i + Len(sub)) = sub

\* the characters of s that are not in chars: re.sub(r"[chars]", "", s)
RemoveChars(s, chars) == SelectSeq(s, LAMBDA ch : ch \notin chars)

-----------------------------------------------------------------------------
(* Numbers: a decimal is mantissa * 10^exponent, its mantissa not a         *)
(* multiple of ten, so that equal numbers are equal records                 *)

RECURSIVE Decimal(_, _)
Decimal(m, x) ==
    IF m = 0 THEN [mantissa |-> 0, exponent |-> 0]
    ELSE IF m % 10 = 0 THEN Decimal(m \div 10, x + 1)
    ELSE [mantissa |-> m, exponent |-> x]

DigitValue(ch) ==
    CASE ch = "0" -> 0 [] ch = "1" -> 1 [] ch = "2" -> 2 [] ch = "3" -> 3
      [] ch = "4" -> 4 [] ch = "5" -> 5 [] ch = "6" -> 6 [] ch = "7" -> 7
      [] ch = "8" -> 8 [] ch = "9" -> 9

\* int(s) for a string of digits
RECURSIVE DigitsValue(_, _)
DigitsValue(s, n) ==
    IF n = 0 THEN 0 ELSE 10 * DigitsValue(s, n - 1) + DigitValue(s[n])

IsDigits(s) == s # <<>> /\ \A i \in 1..Len(s) : s[i] \in Digits

\* the strings -?\d+ matches in full
IsInteger(s) ==
    IsDigits(s) \/ (Len(s) >= 2 /\ s[1] = "-" /\ IsDigits(Tail(s)))

\* int(s) for such a string
IntValue(s) ==
    IF s[1] = "-" THEN 0 - DigitsValue(Tail(s), Len(s) - 1) ELSE DigitsValue(s, Len(s))

\* the part of s that float() reads after the sign
Unsigned(s) == IF s # <<>> /\ s[1] \in {"-", "+"} THEN Tail(s) ELSE s

\* float(shown) succeeds: after trimming, an optional sign, then digits with
\* at most one point among them
IsFloat(shown) ==
    LET u == Unsigned(Strip(shown))
    IN  /\ IsDigits(RemoveChars(u, {"."}))
        /\ Len(u) - Len(RemoveChars(u, {"."})) <= 1

\* float(shown), as a decimal
FloatValue(shown) ==
    LET t == Strip(shown)
        u == Unsigned(t)
        digits == RemoveChars(u, {"."})
        fraction == IF \E i \in 1..Len(u) : u[i] = "."
                    THEN Len(u) - (CHOOSE i \in 1..Len(u) : u[i] = ".") ELSE 0
        m == DigitsValue(digits, Len(digits))
    IN  Decimal(IF t[1] = "-" THEN 0 - m ELSE m, 0 - fraction)

\* d * (10 ** scale)
Scaled(d, scale) == Decimal(d.mantissa, d.exponent + scale)

-----------------------------------------------------------------------------
(* FinancialTools._extract_xbrl_concept_value (tools/financial.py 787-877) *)

\* None, as a value returned in place of a dict
Absent == [source |-> "None"]

\* lines 793-803: the patterns in priority order, each the tag it looks for
\* and how the name attribute must hold the concept
patterns == <<
    [tag |-> "ix:nonFraction", name |-> "namespaced"],
    [tag |-> "ix:nonFraction", name |-> "unqualified"],
    [tag |-> "ix:nonFraction", name |-> "substring"],
    [tag |-> "ix:nonNumeric", name |-> "namespaced"],
    [tag |-> "ix:nonNumeric", name |-> "unqualified"],
    [tag |-> "ix:nonNumeric", name |-> "substring"] >>

\* name="[^"]*:concept", name="concept" and name="[^"]*concept[^"]*" under
\* re.IGNORECASE
NameMatches(rule, value, c) ==
    CASE rule = "namespaced" -> EndsWith(LowerSeq(value), <<":">> \o LowerSeq(c))
      [] rule = "unqualified" -> LowerSeq(value) = LowerSeq(c)
      [] rule = "substring" -> Contains(LowerSeq(value), LowerSeq(c))

\* the pattern matches the element: its tag, a name attribute, and a text
\* of one character or more without "<"
PatternMatches(pattern, el, c) ==
    /\ el.tag = pattern.tag
    /\ \E i \in 1..Len(el.attrs) :
        el.attrs[i].attr = "name" /\ NameMatches(pattern.name, el.attrs[i].value, c)
    /\ el.body # <<>>
    /\ \A i \in 1..Len(el.body) : el.body[i] # "<"

\* line 812: the placeholder texts; the second is the three characters
\* U+00E2 U+20AC U+201D
Placeholders ==
    {<<"-", "-">>, <<"U+00E2", "U+20AC", "U+201D">>, <<"-", "-", "0", "6", "-", "3", "0">>}

\* line 812: the match is passed over
Skipped(value_text) == value_text = <<>> \/ value_text \in Placeholders

\* a numeric text without the sign of the parentheses
NumericText_NoSign(value_text) == RemoveChars(value_text, {",", "$", "(", ")"})

\* lines 818-822: numeric_text
NumericText(value_text) ==
    IF (\E i \in 1..Len(value_text) : value_text[i] = "(")
        /\ (\E i \in 1..Len(value_text) : value_text[i] = ")")
    THEN <<"-">> \o RemoveChars(value_text, {",", "$", "(", ")"})
    ELSE RemoveChars(value_text, {",", "$", "(", ")"})

\* a scale that is never read
ScaleOf_Ignored(el) == 0

\* lines 827-828: the first scale="..." with an integer in it, else 0
ScaleOf(el) ==
    LET places == {i \in 1..Len(el.attrs) :
                      el.attrs[i].attr = "scale" /\ IsInteger(el.attrs[i].value)}
    IN  IF places = {} THEN 0
        ELSE IntValue(el.attrs[CHOOSE i \in places : \A j \in places : i <= j].value)

\* lines 834-835: the first contextRef="..." that is not empty, else None
ContextRefOf(el) ==
    LET places == {i \in 1..Len(el.attrs) :
                      el.attrs[i].attr = "contextRef" /\ el.attrs[i].value # <<>>}
    IN  IF places = {} THEN NoneStr
        ELSE el.attrs[CHOOSE i \in places : \A j \in places : i <= j].value

\* re.search(r"<tag>([^<]+)</tag>", block): the text of the first such
\* element inside a context block, None when there is none
FirstText(items, tag) ==
    LET places == {i \in 1..Len(items) :
                      /\ items[i].tag = tag
                      /\ items[i].body # <<>>
                      /\ \A k \in 1..Len(items[i].body) : items[i].body[k] # "<"}
    IN  IF places = {} THEN NoneStr
        ELSE items[CHOOSE i \in places : \A j \in places : i <= j].body

\* a period taken from the first context block of the filing, whatever the
\* contextRef is
PeriodOf_AnyContext(filing, context_ref) ==
    LET blocks == {i \in 1..Len(filing) : filing[i].tag = "xbrli:context"}
    IN  IF blocks = {} THEN NoneStr
        ELSE FirstText(filing[CHOOSE i \in blocks : \A j \in blocks : i <= j].items,
                       "xbrli:instant")

\* lines 838-853: the period of the first <xbrli:context ... id="context_ref">
\* block, its end date before its instant
PeriodOf(filing, context_ref) ==
    LET blocks == {i \in 1..Len(filing) :
                      /\ filing[i].tag = "xbrli:context"
                      /\ \E k \in 1..Len(filing[i].attrs) :
                            /\ filing[i].attrs[k].attr = "id"
                            /\ filing[i].attrs[k].value = context_ref}
    IN  IF context_ref = NoneStr \/ blocks = {} THEN NoneStr
        ELSE LET items == filing[CHOOSE i \in blocks : \A j \in blocks : i <= j].items
             IN  IF FirstText(items, "xbrli:endDate") # NoneStr
                 THEN FirstText(items, "xbrli:endDate")
                 ELSE FirstText(items, "xbrli:instant")

\* a match whose text is not a number gives nothing
FactOf_DiscardText(filing, el) ==
    LET value_text == Strip(el.body)
    IN  IF IsFloat(NumericText(value_text))
        THEN [value |-> Scaled(FloatValue(NumericText(value_text)), ScaleOf(el)),
              raw_value |-> value_text,
              period |-> PeriodOf(filing, ContextRefOf(el)),
              context_ref |-> ContextRefOf(el),
              scale |-> ScaleOf(el),
              source |-> "xbrl_direct_extraction"]
        ELSE Absent

\* lines 809-872: what is returned for a match that is not passed over
FactOf(filing, el) ==
    LET value_text == Strip(el.body)
    IN  IF IsFloat(NumericText(value_text))
        THEN [value |-> Scaled(FloatValue(NumericText(value_text)), ScaleOf(el)),
              raw_value |-> value_text,
              period |-> PeriodOf(filing, ContextRefOf(el)),
              context_ref |-> ContextRefOf(el),
              scale |-> ScaleOf(el),
              source |-> "xbrl_direct_extraction"]
        ELSE [value |-> value_text,
              raw_value |-> value_text,
              period |-> NoneStr,
              context_ref |-> NoneStr,
              source |-> "xbrl_text_extraction"]

\* lines 805-874: the first match, in document order, of the first pattern
\* that has a match not passed over
ExtractXbrlConceptValue(filing, c) ==
    LET hits == {h \in (1..Len(patterns)) \X (1..Len(filing)) :
                    /\ PatternMatches(patterns[h[1]], filing[h[2]], c)
                    /\ ~Skipped(Strip(filing[h[2]].body))}
    IN  IF hits = {} THEN Absent
        ELSE LET first == CHOOSE h \in hits : \A g \in hits :
                              h[1] < g[1] \/ (h[1] = g[1] /\ h[2] <= g[2])
             IN  FactOf(filing, filing[first[2]])

-----------------------------------------------------------------------------
(* FinancialTools._get_xbrl_concept (tools/financial.py 629-659) *)

\* what _get_xbrl_concept_fallback returns, from the edgartools API
Fallback == [source |-> "fallback"]

\* a truth value that takes a fact of value zero for no fact
IsTrue_NonZero(extracted) ==
    /\ extracted # Absent
    /\ ~(extracted.source = "xbrl_direct_extraction" /\ extracted.value.mantissa = 0)

\* line 642: the truth value of extracted_value, None or a dict with keys
IsTrue(extracted) == extracted # Absent

\* lines 636-655: the dict returned
GetXbrlConceptOf(filing, c) ==
    LET extracted == ExtractXbrlConceptValue(filing, c)
    IN  IF filing = <<>> THEN Fallback
        ELSE IF IsTrue(extracted)
        THEN [value |-> extracted.value,
              unit |-> IF extracted.source = "xbrl_direct_extraction" THEN "USD" ELSE None,
              context |-> extracted.context_ref,
              period |-> extracted.period,
              concept |-> c,
              raw_value |-> extracted.raw_value,
              scale |-> IF "scale" \in DOMAIN extracted THEN extracted.scale ELSE None,
              source |-> extracted.source]
        ELSE Fallback

-----------------------------------------------------------------------------
(* The fact extractor as a state machine: one action per call *)

\* <tag contextRef=... name=... scale=...>shown</tag>, an attribute left out
\* when its value is None
Fact(tag, context_ref, name, scale, shown) ==
    Element(tag,
        (IF context_ref = NoneStr THEN <<>> ELSE <<Attr("contextRef", context_ref)>>)
        \o <<Attr("name", name)>>
        \o (IF scale = NoneStr THEN <<>> ELSE <<Attr("scale", scale)>>),
        shown, <<>>)

\* <xbrli:context id=...> with the elements items inside
Context(id, items) == Element("xbrli:context", <<Attr("id", id)>>, <<>>, items)

\* <tag>shown</tag>
Leaf(tag, shown) == Element(tag, <<>>, shown, <<>>)

\* the fact tags of a filing
FactTags == {
    Fact("ix:nonFraction", <<"c", "1">>, <<"u", "s", "-", "g", "a", "a", "p", ":", "A", "s", "s", "e", "t", "s">>, <<"3">>, <<"1", ",", "2", "3", "4">>),
    Fact("ix:nonFraction", <<"c", "2">>, <<"u", "s", "-", "g", "a", "a", "p", ":", "A", "s", "s", "e", "t", "s">>, NoneStr, <<"(", "5", "6", ")">>),
    Fact("ix:nonFraction", <<"c", "9">>, <<"u", "s", "-", "g", "a", "a", "p", ":", "A", "s", "s", "e", "t", "s">>, <<"6">>, <<"$", "(", "1", ",", "2", "3", "4", ")">>),
    Fact("ix:nonFraction", NoneStr, <<"u", "s", "-", "g", "a", "a", "p", ":", "A", "s", "s", "e", "t", "s">>, <<"-", "2">>, <<" ", "1", ".", "5", "0", " ">>),
    Fact("ix:nonFraction", <<"c", "3">>, <<"u", "s", "-", "g", "a", "a", "p", ":", "A", "s", "s", "e", "t", "s">>, <<"3">>, <<"0">>),
    Fact("ix:nonFraction", <<"c", "1">>, <<"u", "s", "-", "g", "a", "a", "p", ":", "A", "s", "s", "e", "t", "s">>, NoneStr, <<"-", "-">>),
    Fact("ix:nonFraction", <<"c", "1">>, <<"u", "s", "-", "g", "a", "a", "p", ":", "A", "s", "s", "e", "t", "s">>, <<"3">>, <<"N", "/", "A">>),
    Fact("ix:nonFraction", <<"c", "3">>, <<"A", "s", "s", "e", "t", "s">>, <<"3">>, <<"7">>),
    Fact("ix:nonFraction", <<"c", "1">>, <<"u", "s", "-", "g", "a", "a", "p", ":", "A", "s", "s", "e", "t", "s", "C", "u", "r", "r", "e", "n", "t">>, NoneStr, <<"9">>),
    Fact("ix:nonNumeric", <<"c", "1">>, <<"u", "s", "-", "g", "a", "a", "p", ":", "A", "s", "s", "e", "t", "s">>, NoneStr, <<"1", "2">>),
    Fact("ix:nonFraction", <<"c", "2">>, <<"u", "s", "-", "g", "a", "a", "p", ":", "C", "a", "s", "h">>, <<"3">>, <<"(", "$", "2", ",", "0", "0", "0", ")">>),
    \* an em-dash (the character U+2014), a stray date fragment of the list
    \* of line 812 and one that is not in it, and a blank text
    Fact("ix:nonFraction", <<"c", "1">>, <<"u", "s", "-", "g", "a", "a", "p", ":", "A", "s", "s", "e", "t", "s">>, NoneStr, <<"U+2014">>),
    Fact("ix:nonFraction", <<"c", "1">>, <<"u", "s", "-", "g", "a", "a", "p", ":", "A", "s", "s", "e", "t", "s">>, NoneStr, <<"-", "-", "0", "6", "-", "3", "0">>),
    Fact("ix:nonFraction", <<"c", "1">>, <<"u", "s", "-", "g", "a", "a", "p", ":", "A", "s", "s", "e", "t", "s">>, NoneStr, <<"-", "-", "1", "2", "-", "3", "1">>),
    Fact("ix:nonFraction", <<"c", "1">>, <<"u", "s", "-", "g", "a", "a", "p", ":", "A", "s", "s", "e", "t", "s">>, NoneStr, <<" ">>)
}

\* the context blocks of a filing: an instant, a duration, and a block
\* without a date
ContextBlocks == {
    Context(<<"c", "1">>, <<Leaf("xbrli:instant", <<"2", "0", "2", "4", "-", "1", "2", "-", "3", "1">>)>>),
    Context(<<"c", "2">>, <<Leaf("xbrli:startDate", <<"2", "0", "2", "4", "-", "0", "1", "-", "0", "1">>),
                      Leaf("xbrli:endDate", <<"2", "0", "2", "4", "-", "0", "9", "-", "3", "0">>)>>),
    Context(<<"c", "3">>, <<Leaf("xbrli:entity", <<"0", "0", "0", "0", "3", "2", "0", "1", "9", "3">>)>>)
}

RECURSIVE Filings(_)
Filings(n) ==
    IF n = 0 THEN {<<>>}
    ELSE Filings(n - 1)
         \cup {f \o <<el>> : f \in Filings(n - 1), el \in FactTags \cup ContextBlocks}

\* the concepts asked for
Concepts == {<<"A", "s", "s", "e", "t", "s">>, <<"c", "a", "s", "h">>}

InitFacts ==
    /\ filing_content \in Filings(MaxElements)
    /\ concept \in Concepts
    /\ extracted_value = Absent
    /\ xbrl_concept = Absent
    /\ xpc = "input"
    /\ IdleChunk
    /\ IdleSect
    /\ IdleDemux
    /\ IdleSeg
    /\ IdleMore

\* _extract_xbrl_concept_value(filing_content, concept)
ExtractXbrlConceptValueCall ==
    /\ xpc = "input"
    /\ extracted_value' = ExtractXbrlConceptValue(filing_content, concept)
    /\ xpc' = "extracted"
    /\ UNCHANGED <<filing_content, concept, xbrl_concept>>
    /\ UNCHANGED <<chunkVars, sectVars, demuxVars, segVars, moreVars>>

\* _get_xbrl_concept(xbrl, filing, concept_name), the content fetched being
\* filing_content
GetXbrlConcept ==
    /\ xpc = "input"
    /\ extracted_value' = ExtractXbrlConceptValue(filing_content, concept)
    /\ xbrl_concept' = GetXbrlConceptOf(filing_content, concept)
    /\ xpc' = "concept"
    /\ UNCHANGED <<filing_content, concept>>
    /\ UNCHANGED <<chunkVars, sectVars, demuxVars, segVars, moreVars>>

NextFacts == ExtractXbrlConceptValueCall \/ GetXbrlConcept

SpecFacts == InitFacts /\ [][NextFacts]_vars

-----------------------------------------------------------------------------
(* The segment resolver (server.py): the text of a filing, its namespaces   *)
(* and the qualified names in it.  A dict is held as the sequence of its    *)
(* items in insertion order, the order its JSON form shows.                 *)

\* xmlns:prefix="uri", the attribute that declares a namespace
Xmlns(prefix, uri) == [attr |-> "xmlns", prefix |-> prefix, value |-> uri]

\* the sequences of a sequence, joined
RECURSIVE Flat(_)
Flat(seqs) == IF seqs = <<>> THEN <<>> ELSE Head(seqs) \o Flat(Tail(seqs))

Range(s) == {s[i] : i \in 1..Len(s)}

\* the elements of a filing in document order, an element before the
\* elements inside it (a context block holds elements that hold elements)
Elements(filing) ==
    Flat([i \in 1..Len(filing) |->
            <<filing[i]>> \o Flat([k \in 1..Len(filing[i].items) |->
                    <<filing[i].items[k]>> \o filing[i].items[k].items])])

\* the characters of a tag name
TagText(tag) ==
    CASE tag = "ix:nonFraction" -> <<"i", "x", ":", "n", "o", "n", "F", "r", "a", "c", "t", "i", "o", "n">>
      [] tag = "ix:nonNumeric" -> <<"i", "x", ":", "n", "o", "n", "N", "u", "m", "e", "r", "i", "c">>
      [] tag = "xbrli:context" -> <<"x", "b", "r", "l", "i", ":", "c", "o", "n", "t", "e", "x", "t">>
      [] tag = "xbrli:segment" -> <<"x", "b", "r", "l", "i", ":", "s", "e", "g", "m", "e", "n", "t">>
      [] tag = "xbrli:period" -> <<"x", "b", "r", "l", "i", ":", "p", "e", "r", "i", "o", "d">>
      [] tag = "xbrli:instant" -> <<"x", "b", "r", "l", "i", ":", "i", "n", "s", "t", "a", "n", "t">>
      [] tag = "xbrli:startDate" -> <<"x", "b", "r", "l", "i", ":", "s", "t", "a", "r", "t", "D", "a", "t", "e">>
      [] tag = "xbrli:endDate" -> <<"x", "b", "r", "l", "i", ":", "e", "n", "d", "D", "a", "t", "e">>
      [] tag = "xbrli:entity" -> <<"x", "b", "r", "l", "i", ":", "e", "n", "t", "i", "t", "y">>
      [] tag = "xbrldi:explicitMember" -> <<"x", "b", "r", "l", "d", "i", ":", "e", "x", "p", "l", "i", "c", "i", "t", "M", "e", "m", "b", "e", "r">>
      [] tag = "xbrldi:typedMember" -> <<"x", "b", "r", "l", "d", "i", ":", "t", "y", "p", "e", "d", "M", "e", "m", "b", "e", "r">>
      [] tag = "html" -> <<"h", "t", "m", "l">>

\* the texts of an element in which a name can stand: its tag name, its
\* attributes and their values, and its text
ElementTexts(el) ==
    {TagText(el.tag), el.body}
    \cup {el.attrs[i].value : i \in 1..Len(el.attrs)}
    \cup {<<"x", "m", "l", "n", "s", ":">> \o el.attrs[i].prefix :
            i \in {k \in 1..Len(el.attrs) : el.attrs[k].attr = "xmlns"}}

\* [a-z]+ under re.IGNORECASE, matched in full
IsLetters(s) ==
    s # <<>> /\ \A i \in 1..Len(s) : Lower(s[i]) \in {Lowercase[k] : k \in 1..26}

\* lines 1297-1298 and 1647-1648: re.findall(namespace_pattern, txt_content,
\* re.IGNORECASE), the prefixes declared with a uri that begins http://
NamespaceMatches(filing) ==
    LET declared(el) ==
            SelectSeq(el.attrs, LAMBDA a :
                /\ a.attr = "xmlns"
                /\ IsLetters(a.prefix)
                /\ StartsWith(LowerSeq(a.value), <<"h", "t", "t", "p", ":", "/", "/">>))
        all == Elements(filing)
    IN  Flat([i \in 1..Len(all) |->
                [k \in 1..Len(declared(all[i])) |-> declared(all[i])[k].prefix]])

\* lines 1301-1318: standard_namespaces of get_company_specific_concepts_tool
standard_namespaces ==
    {<<"i", "x">>, <<"x", "s", "i">>, <<"x", "l", "i", "n", "k">>, <<"l", "i", "n", "k">>, <<"x", "b", "r", "l", "d", "t">>, <<"x", "b", "r", "l", "d", "i">>, <<"d", "e", "i">>, <<"u", "s", "-", "g", "a", "a", "p">>,
     <<"c", "o", "u", "n", "t", "r", "y">>, <<"c", "u", "r", "r", "e", "n", "c", "y">>, <<"e", "x", "c", "h">>, <<"i", "n", "v", "e", "s", "t">>, <<"n", "a", "i", "c", "s">>, <<"s", "i", "c">>, <<"s", "t", "p", "r">>, <<"u", "t", "r">>}

\* lines 1649-1671: standard_namespaces of get_segment_revenue_data_tool
revenue_standard_namespaces ==
    standard_namespaces \cup {<<"s", "r", "t">>, <<"e", "c", "d">>, <<"x", "b", "r", "l", "i">>, <<"i", "x", "t">>, <<"x", "s">>}

\* lines 1319 and 1672: the longest prefix taken for a company namespace
MaxNamespaceLen == 6

\* lines 1319 and 1672: the members of company_namespaces
CompanyNamespaces(filing, standard) ==
    {ns \in Range(NamespaceMatches(filing)) :
        ns \notin standard /\ Len(ns) <= MaxNamespaceLen}

\* the orders in which the members of a set can come out of an iteration
\* over it: the order of a set of strings is not fixed by the language, it
\* changes with the hash seed of the process
Orderings(S) ==
    {s \in [1..Cardinality(S) -> S] : \A x \in S : \E i \in 1..Cardinality(S) : s[i] = x}

\* the length of the run of characters of chars in s from index j on
RECURSIVE RunLen(_, _, _)
RunLen(s, j, chars) ==
    IF j <= Len(s) /\ s[j] \in chars THEN 1 + RunLen(s, j + 1, chars) ELSE 0

\* what re.findall(prefix:(pattern of name characters)) captures in the text
\* s: the run of name characters after each prefix and colon
NamesIn(s, prefix) ==
    LET q == prefix \o <<":">>
        places == {i \in 1..(Len(s) - Len(q) + 1) :
                      /\ SubSeq(s, i, i + Len(q) - 1) = q
                      /\ RunLen(s, i + Len(q), WordChars) > 0}
    IN  {SubSeq(s, i + Len(q), i + Len(q) + RunLen(s, i + Len(q), WordChars) - 1) :
            i \in places}

\* lines 1325-1327 : set(concept_matches)
ConceptMatches(filing, prefix) ==
    UNION {NamesIn(t, prefix) :
            t \in UNION {ElementTexts(el) : el \in Range(Elements(filing))}}

-----------------------------------------------------------------------------
(* Python's order of strings, and sorted() *)

AsciiOrder ==
    <<"0", "1", "2", "3", "4", "5", "6", "7", "8", "9">> \o Uppercase \o <<"_">> \o Lowercase

CodeOf(ch) == CHOOSE i \in 1..Len(AsciiOrder) : AsciiOrder[i] = ch

\* a < b for strings
RECURSIVE StrLess(_, _)
StrLess(a, b) ==
    IF a = <<>> THEN b # <<>>
    ELSE IF b = <<>> THEN FALSE
    ELSE IF a[1] = b[1] THEN StrLess(Tail(a), Tail(b))
    ELSE CodeOf(a[1]) < CodeOf(b[1])

\* sorted(s) for a list of strings
SortedList(s) ==
    LET rank(i) == Cardinality({j \in 1..Len(s) : StrLess(s[j], s[i])})
                   + Cardinality({j \in 1..(i - 1) : s[j] = s[i]}) + 1
    IN  [r \in 1..Len(s) |-> s[CHOOSE i \in 1..Len(s) : rank(i) = r]]

\* the list without the later copies of its members
RECURSIVE Dedup(_)
Dedup(s) ==
    IF s = <<>> THEN <<>>
    ELSE LET front == Dedup(SubSeq(s, 1, Len(s) - 1))
         IN  IF s[Len(s)] \in Range(front) THEN front ELSE Append(front, s[Len(s)])

-----------------------------------------------------------------------------
(* get_company_specific_concepts_tool (server.py 1259-1426) *)

\* line 1339: a word is kept when it is longer than this
MinWordLen == 2
\* line 1357: a keyword makes a category when it has this many concepts
MinCategorySize == 2
\* line 1357: the number of keyword categories at most
MaxCategories == 8
\* line 1375: the number of top keywords shown
TopKeywordsShown == 10

\* line 1338: re.findall(r"[A-Z][a-z]*|[a-z]+", name), from index i on
RECURSIVE WordsFrom(_, _)
WordsFrom(s, i) ==
    LET lower == {Lowercase[k] : k \in 1..26}
        upper == {Uppercase[k] : k \in 1..26}
    IN  IF i > Len(s) THEN <<>>
        ELSE IF s[i] \in upper
        THEN <<SubSeq(s, i, i + RunLen(s, i + 1, lower))>>
             \o WordsFrom(s, i + 1 + RunLen(s, i + 1, lower))
        ELSE IF s[i] \in lower
        THEN <<SubSeq(s, i, i + RunLen(s, i, lower) - 1)>>
             \o WordsFrom(s, i + RunLen(s, i, lower))
        ELSE WordsFrom(s, i + 1)

\* lines 1338-1339: words
KeywordsOf(name) ==
    LET kept == SelectSeq(WordsFrom(name, 1), LAMBDA w : Len(w) > MinWordLen)
    IN  [i \in 1..Len(kept) |-> LowerSeq(kept[i])]

\* lines 1331-1344: keyword_groups, its items in insertion order, for
\* unique_concepts in the order it is iterated in
KeywordGroups(unique_concepts) ==
    LET pairs == Flat([i \in 1..Len(unique_concepts) |->
                    [k \in 1..Len(KeywordsOf(unique_concepts[i])) |->
                        [word |-> KeywordsOf(unique_concepts[i])[k],
                         name |-> unique_concepts[i]]]])
        words == Dedup([i \in 1..Len(pairs) |-> pairs[i].word])
        named(w) == SelectSeq(pairs, LAMBDA p : p.word = w)
    IN  [i \in 1..Len(words) |->
            [word |-> words[i],
             concepts |-> [k \in 1..Len(named(words[i])) |-> named(words[i])[k].name]]]

\* lines 1347-1350: top_keywords; sorted() is stable, also with reverse=True
TopKeywords(groups) ==
    LET count(i) == Len(groups[i].concepts)
        rank(i) == Cardinality({j \in 1..Len(groups) : count(j) > count(i)})
                   + Cardinality({j \in 1..(i - 1) : count(j) = count(i)}) + 1
    IN  [r \in 1..Len(groups) |->
            LET i == CHOOSE j \in 1..Len(groups) : rank(j) = r
            IN  [word |-> groups[i].word, count |-> count(i)]]

\* lines 1352-1366: dynamic_categories, groups being keyword_groups
DynamicCategories(unique_concepts, groups) ==
    LET eligible == SelectSeq(TopKeywords(groups), LAMBDA t : t.count >= MinCategorySize)
        kept == SubSeq(eligible, 1, Min(Len(eligible), MaxCategories))
        group(w) == groups[CHOOSE i \in 1..Len(groups) : groups[i].word = w].concepts
        keyword_categories ==
            [i \in 1..Len(kept) |->
                [category |-> kept[i].word \o <<"_", "c", "o", "n", "c", "e", "p", "t", "s">>,
                 concepts |-> SortedList(group(kept[i].word))]]
        categorized_concepts == UNION {Range(group(kept[i].word)) : i \in 1..Len(kept)}
        uncategorized == SelectSeq(unique_concepts, LAMBDA c : c \notin categorized_concepts)
        other == [category |-> <<"o", "t", "h", "e", "r", "_", "c", "o", "n", "c", "e", "p", "t", "s">>, concepts |-> SortedList(uncategorized)]
    IN  IF uncategorized = <<>> THEN keyword_categories
        ELSE IF \E i \in 1..Len(kept) : kept[i].word = <<"o", "t", "h", "e", "r">>
        THEN [i \in 1..Len(kept) |->
                IF kept[i].word = <<"o", "t", "h", "e", "r">> THEN other ELSE keyword_categories[i]]
        ELSE Append(keyword_categories, other)

\* lines 1368-1377: all_concepts[company_prefix]
ConceptsOfNamespace(unique_concepts) ==
    LET groups == KeywordGroups(unique_concepts)
        top_keywords == TopKeywords(groups)
    IN  [total_concepts |-> Len(unique_concepts),
         categories |-> DynamicCategories(unique_concepts, groups),
         all_concepts |-> SortedList(unique_concepts),
         keyword_analysis |->
            [total_keywords_found |-> Len(top_keywords),
             top_keywords |-> SubSeq(top_keywords, 1, Min(Len(top_keywords), TopKeywordsShown))]]

RECURSIVE TotalConcepts(_)
TotalConcepts(items) ==
    IF items = <<>> THEN 0
    ELSE Head(items).data.total_concepts + TotalConcepts(Tail(items))

\* the choices of an order for unique_concepts, one for every prefix of a set
RECURSIVE UniqueConceptOrders(_, _)
UniqueConceptOrders(filing, prefixes) ==
    IF prefixes = {} THEN {[ns \in {} |-> <<>>]}
    ELSE LET p == CHOOSE ns \in prefixes : TRUE
         IN  {[ns \in prefixes |-> IF ns = p THEN order ELSE rest[ns]] :
                 rest \in UniqueConceptOrders(filing, prefixes \ {p}),
                 order \in Orderings(ConceptMatches(filing, p))}

\* lines 1281-1414: what the tool returns, company_namespaces and each
\* unique_concepts being in the order given (the fields cik,
\* accession_number, filing_size_chars, sample_concept_usage and note left out)
CompanySpecificConcepts(filing, company_namespaces, unique) ==
    IF filing = <<>>
    THEN [success |-> FALSE, error |-> "Failed to fetch filing content"]
    ELSE LET found == SelectSeq(company_namespaces, LAMBDA ns : unique[ns] # <<>>)
             all_concepts == [i \in 1..Len(found) |->
                                [namespace |-> found[i],
                                 data |-> ConceptsOfNamespace(unique[found[i]])]]
         IN  [company_namespaces |-> company_namespaces,
              concepts_by_namespace |-> all_concepts,
              total_company_concepts |-> TotalConcepts(all_concepts),
              success |-> TRUE]

-----------------------------------------------------------------------------
(* list_company_specific_concepts_tool (server.py 1428-1610) *)

\* lines 1516-1534: concept_to_category[name], groups being keyword_groups
ConceptToCategory(groups, name) ==
    LET eligible == SelectSeq(TopKeywords(groups), LAMBDA t : t.count >= MinCategorySize)
        kept == SubSeq(eligible, 1, Min(Len(eligible), MaxCategories))
        group(w) == groups[CHOOSE i \in 1..Len(groups) : groups[i].word = w].concepts
        holding == {i \in 1..Len(kept) : name \in Range(group(kept[i].word))}
    IN  IF holding = {} THEN <<"o", "t", "h", "e", "r", "_", "c", "o", "n", "c", "e", "p", "t", "s">>
        ELSE kept[CHOOSE i \in holding : \A j \in holding : i <= j].word \o <<"_", "c", "o", "n", "c", "e", "p", "t", "s">>

\* lines 1509-1557: what one prefix adds to all_concepts_list
ConceptEntries(company_prefix, unique_concepts, category_filter) ==
    LET groups == KeywordGroups(unique_concepts)
        entries == [i \in 1..Len(unique_concepts) |->
                        [full_concept |-> company_prefix \o <<":">> \o unique_concepts[i],
                         namespace |-> company_prefix,
                         concept_name |-> unique_concepts[i],
                         category |-> ConceptToCategory(groups, unique_concepts[i])]]
    IN  SelectSeq(entries, LAMBDA e :
            category_filter \in {NoneStr, <<>>} \/ e.category = category_filter)

\* line 1560: all_concepts_list.sort(key=(namespace, concept_name))
SortedEntries(entries) ==
    LET before(a, b) ==
            \/ StrLess(a.namespace, b.namespace)
            \/ a.namespace = b.namespace /\ StrLess(a.concept_name, b.concept_name)
        rank(i) == Cardinality({j \in 1..Len(entries) : before(entries[j], entries[i])})
                   + Cardinality({j \in 1..(i - 1) :
                        /\ entries[j].namespace = entries[i].namespace
                        /\ entries[j].concept_name = entries[i].concept_name}) + 1
    IN  [r \in 1..Len(entries) |-> entries[CHOOSE i \in 1..Len(entries) : rank(i) = r]]

\* lines 1563-1574: namespace_summary, its items and the items of each
\* categories in insertion order
NamespaceSummary(entries) ==
    LET spaces == Dedup([i \in 1..Len(entries) |-> entries[i].namespace])
        of(ns) == SelectSeq(entries, LAMBDA e : e.namespace = ns)
        cats(ns) == Dedup([i \in 1..Len(of(ns)) |-> of(ns)[i].category])
    IN  [i \in 1..Len(spaces) |->
            [namespace |-> spaces[i],
             total_concepts |-> Len(of(spaces[i])),
             categories |-> [k \in 1..Len(cats(spaces[i])) |->
                [category |-> cats(spaces[i])[k],
                 count |-> Len(SelectSeq(of(spaces[i]),
                              LAMBDA e : e.category = cats(spaces[i])[k]))]]]]

\* lines 1456-1601: what the tool returns, company_namespaces and each
\* unique_concepts being in the order given (the fields cik,
\* accession_number and usage_examples left out)
ListCompanySpecificConcepts(filing, namespace_filter, category_filter, company_namespaces, unique) ==
    IF filing = <<>>
    THEN [success |-> FALSE, error |-> "Failed to fetch filing content"]
    ELSE IF namespace_filter \notin {NoneStr, <<>>} /\ namespace_filter \notin Range(company_namespaces)
    THEN [success |-> FALSE, error |-> "Namespace not found in filing",
          available_namespaces |-> company_namespaces]
    ELSE LET used == IF namespace_filter \in {NoneStr, <<>>} THEN company_namespaces
                     ELSE <<namespace_filter>>
             all_concepts_list ==
                SortedEntries(Flat([i \in 1..Len(used) |->
                    ConceptEntries(used[i], unique[used[i]], category_filter)]))
         IN  [filters_applied |-> [namespace |-> namespace_filter, category |-> category_filter],
              available_namespaces |-> used,
              total_concepts_found |-> Len(all_concepts_list),
              namespace_summary |-> NamespaceSummary(all_concepts_list),
              concepts |-> all_concepts_list,
              clean_concept_list |->
                [i \in 1..Len(all_concepts_list) |-> all_concepts_list[i].full_concept],
              success |-> TRUE]

-----------------------------------------------------------------------------
(* get_segment_breakdown_tool (server.py 1856-2042) *)

\* the index of the last ch in s, 0 when there is none
LastIndexOf(s, ch) ==
    LET places == {i \in 1..Len(s) : s[i] = ch}
    IN  IF places = {} THEN 0 ELSE CHOOSE i \in places : \A j \in places : j <= i

\* s.split(":")[-1]
AfterLastColon(s) == SubSeq(s, LastIndexOf(s, ":") + 1, Len(s))

\* a text of one character or more without "<", the whole content of an
\* element: what ([^<]+) captures between a tag and its closing tag
IsPlainText(el) ==
    /\ el.items = <<>>
    /\ el.body # <<>>
    /\ \A i \in 1..Len(el.body) : el.body[i] # "<"

\* the index of the last attribute attr="..." of the element with a value
\* of one character or more, 0 when there is none
LastAttr(el, attr) ==
    LET places == {i \in 1..Len(el.attrs) :
                      el.attrs[i].attr = attr /\ el.attrs[i].value # <<>>}
    IN  IF places = {} THEN 0 ELSE CHOOSE i \in places : \A j \in places : j <= i

\* lines 1921-1922: contexts, the (id, content) of every context block; the
\* content is held as the elements and the text inside the block
ContextsIn(filing) ==
    LET blocks == SelectSeq(filing, LAMBDA el :
                      el.tag = "xbrli:context" /\ LastAttr(el, "id") > 0)
    IN  [i \in 1..Len(blocks) |->
            [ctx_id |-> blocks[i].attrs[LastAttr(blocks[i], "id")].value,
             items |-> blocks[i].items,
             body |-> blocks[i].body]]

\* line 1925: value_pattern matches the element: a tag with a colon in its
\* name, contextRef="..." not empty, and a plain text up to the closing tag
ValueMatches(el) ==
    /\ LastIndexOf(TagText(el.tag), ":") > 1
    /\ LastIndexOf(TagText(el.tag), ":") < Len(TagText(el.tag))
    /\ LastAttr(el, "contextRef") > 0
    /\ IsPlainText(el)

\* line 1925: values, in document order
ValuesOf(filing) == SelectSeq(Elements(filing), ValueMatches)

\* line 1925: the first group of value_pattern is greedy and runs to the
\* last colon before contextRef, a colon of an attribute value when there is
\* one: the index of the last such attribute, 0 when the colon is the one of
\* the tag name
NamedBy(el) ==
    LET places == {i \in 1..(LastAttr(el, "contextRef") - 1) :
                      LastIndexOf(el.attrs[i].value, ":") > 0}
    IN  IF places = {} THEN 0 ELSE CHOOSE i \in places : \A j \in places : j <= i

\* lines 1925, 1932: full_concept, the text of the tag from its name to the
\* end of the second group, held as the tag name and the attributes in it
\* (attribute values hold no whitespace)
FullConcept(el) == [tag |-> el.tag, attrs |-> SubSeq(el.attrs, 1, NamedBy(el))]

\* line 1925: concept, the second group: what follows the colon, with the
\* closing quote when the colon is in an attribute value
ConceptText(el) ==
    IF NamedBy(el) = 0 THEN AfterLastColon(TagText(el.tag))
    ELSE AfterLastColon(el.attrs[NamedBy(el)].value) \o <<"\"">>

\* line 1935: the value is passed over
Filtered(el, filter) ==
    filter # <<>> /\ ~Contains(LowerSeq(ConceptText(el)), LowerSeq(filter))

\* lines 1939-1944: context_content, the content of the first context block
\* with that id; Missing when there is none
Missing == [ctx_id |-> NoneStr, items |-> <<>>, body |-> <<>>]

ContextContent(contexts, context_ref) ==
    LET places == {i \in 1..Len(contexts) : contexts[i].ctx_id = context_ref}
    IN  IF places = {} THEN Missing
        ELSE contexts[CHOOSE i \in places : \A j \in places : i <= j]

\* line 1946: the truth value of context_content, None or a string
HasContent(ctx) == ctx # Missing /\ (ctx.items # <<>> \/ ctx.body # <<>>)

\* the elements inside a context block, in document order
Inside(ctx) ==
    Flat([k \in 1..Len(ctx.items) |-> <<ctx.items[k]>> \o ctx.items[k].items])

\* lines 1948-1952: the explicitMember elements the pattern matches: a
\* dimension that ends in Axis after a colon and a character or more
IsSegmentRef(el) ==
    /\ LowerSeq(TagText(el.tag)) = LowerSeq(<<"x", "b", "r", "l", "d", "i", ":", "e", "x", "p", "l", "i", "c", "i", "t", "M", "e", "m", "b", "e", "r">>)
    /\ IsPlainText(el)
    /\ LastAttr(el, "dimension") > 0
    /\ LET dimension == el.attrs[LastAttr(el, "dimension")].value
       IN  /\ EndsWith(LowerSeq(dimension), <<"a", "x", "i", "s">>)
           /\ \E i \in 1..(Len(dimension) - 5) : dimension[i] = ":"

\* lines 1948-1952: segment_refs, the (axis, member) pairs
SegmentRefs(ctx) ==
    LET refs == SelectSeq(Inside(ctx), IsSegmentRef)
        dimension(i) == refs[i].attrs[LastAttr(refs[i], "dimension")].value
        colon(i) == CHOOSE k \in 1..(Len(dimension(i)) - 5) :
                        /\ dimension(i)[k] = ":"
                        /\ \A j \in (k + 1)..(Len(dimension(i)) - 5) : dimension(i)[j] # ":"
    IN  [i \in 1..Len(refs) |->
            [axis |-> SubSeq(dimension(i), colon(i) + 1, Len(dimension(i)) - 4),
             member |-> refs[i].body]]

\* lines 1955-1960: end_date, the text of the first instant or endDate
UnknownDate == <<"u", "n", "k", "n", "o", "w", "n">>

EndDateOf(ctx) ==
    LET dates == SelectSeq(Inside(ctx), LAMBDA el :
                    /\ LowerSeq(TagText(el.tag)) \in
                          {LowerSeq(<<"x", "b", "r", "l", "i", ":", "i", "n", "s", "t", "a", "n", "t">>), LowerSeq(<<"x", "b", "r", "l", "i", ":", "e", "n", "d", "D", "a", "t", "e">>)}
                    /\ el.attrs = <<>>
                    /\ IsPlainText(el))
    IN  IF dates = <<>> THEN UnknownDate ELSE dates[1].body

\* lines 1963-1967: numeric_value, the characters of the text that are
\* digits, points and minus signs, read as a number; 0 when they are none
NumericValue(shown) ==
    LET clean_value == SelectSeq(shown, LAMBDA ch : ch \in Digits \cup {".", "-"})
    IN  IF clean_value # <<>> /\ IsFloat(clean_value)
        THEN FloatValue(clean_value)
        ELSE Decimal(0, 0)

\* "_".join(names)
RECURSIVE JoinNames(_)
JoinNames(names) ==
    IF names = <<>> THEN <<>>
    ELSE IF Len(names) = 1 THEN names[1]
    ELSE names[1] \o <<"_">> \o JoinNames(Tail(names))

\* lines 1980-1982: segment_key
SegmentKey(segment_refs) ==
    IF segment_refs # <<>>
    THEN JoinNames([i \in 1..Len(segment_refs) |-> AfterLastColon(segment_refs[i].member)])
    ELSE <<"n", "o", "_", "s", "e", "g", "m", "e", "n", "t">>

\* lines 1993-2001: the dict appended for a value (formatted_value left out)
FactEntry(el, ctx) ==
    [value |-> NumericValue(el.body),
     end_date |-> EndDateOf(ctx),
     context_ref |-> el.attrs[LastAttr(el, "contextRef")].value,
     raw_value |-> el.body]

\* lines 1990-1993: the items of a concepts dict after a value is appended
AddToConcepts(concepts, full_concept, entry) ==
    IF \E i \in 1..Len(concepts) : concepts[i].concept = full_concept
    THEN [i \in 1..Len(concepts) |->
            IF concepts[i].concept = full_concept
            THEN [concepts[i] EXCEPT !.facts = Append(@, entry)]
            ELSE concepts[i]]
    ELSE Append(concepts, [concept |-> full_concept, facts |-> <<entry>>])

\* lines 1984-2001: the items of segment_data after a value is stored
AddToSegmentData(segment_data, el, ctx) ==
    LET segment_refs == SegmentRefs(ctx)
        segment_key == SegmentKey(segment_refs)
        entry == FactEntry(el, ctx)
    IN  IF \E i \in 1..Len(segment_data) : segment_data[i].raw_segment_key = segment_key
        THEN [i \in 1..Len(segment_data) |->
                IF segment_data[i].raw_segment_key = segment_key
                THEN [segment_data[i] EXCEPT
                        !.concepts = AddToConcepts(@, FullConcept(el), entry)]
                ELSE segment_data[i]]
        ELSE Append(segment_data,
                [segment_dimensions |-> segment_refs,
                 concepts |-> AddToConcepts(<<>>, FullConcept(el), entry),
                 raw_segment_key |-> segment_key])

\* lines 1931-2002: segment_data after the first n values
RECURSIVE SegmentDataUpTo(_, _, _, _)
SegmentDataUpTo(values, contexts, filter, n) ==
    IF n = 0 THEN <<>>
    ELSE LET before == SegmentDataUpTo(values, contexts, filter, n - 1)
             el == values[n]
             ctx == ContextContent(contexts, el.attrs[LastAttr(el, "contextRef")].value)
         IN  IF ~Filtered(el, filter) /\ HasContent(ctx)
             THEN AddToSegmentData(before, el, ctx)
             ELSE before

\* lines 1890-1899: segment_members
SegmentMembers(concepts_result) ==
    Flat([i \in 1..Len(concepts_result.concepts_by_namespace) |->
        LET item == concepts_result.concepts_by_namespace[i]
            kept == SelectSeq(item.data.all_concepts, LAMBDA c : Contains(c, <<"M", "e", "m", "b", "e", "r">>))
        IN  [k \in 1..Len(kept) |-> item.namespace \o <<":">> \o kept[k]]])

\* lines 1890-1904: financial_concepts
FinancialConcepts(concepts_result, filter) ==
    Flat([i \in 1..Len(concepts_result.concepts_by_namespace) |->
        LET item == concepts_result.concepts_by_namespace[i]
            kept == SelectSeq(item.data.all_concepts, LAMBDA c :
                        /\ ~Contains(c, <<"M", "e", "m", "b", "e", "r">>)
                        /\ (filter = <<>> \/ Contains(LowerSeq(c), LowerSeq(filter))))
        IN  [k \in 1..Len(kept) |-> item.namespace \o <<":">> \o kept[k]]])

\* None, in place of a full_concept
NoConcept == [tag |-> "None", attrs |-> <<>>]

\* lines 2013-2019: primary_concept, the first of the concepts that are in
\* the most groups
PrimaryConcept(segment_data) ==
    LET order == Dedup(Flat([g \in 1..Len(segment_data) |->
                    [k \in 1..Len(segment_data[g].concepts) |->
                        segment_data[g].concepts[k].concept]]))
        count(i) == Cardinality({g \in 1..Len(segment_data) :
                        \E k \in 1..Len(segment_data[g].concepts) :
                            segment_data[g].concepts[k].concept = order[i]})
    IN  IF order = <<>> THEN NoConcept
        ELSE order[CHOOSE i \in 1..Len(order) :
                    /\ \A j \in 1..Len(order) : count(j) <= count(i)
                    /\ \A j \in 1..(i - 1) : count(j) < count(i)]

\* lines 1879-2033: what the tool returns, concepts_result being what
\* get_company_specific_concepts_tool returned to it (the fields cik,
\* accession_number and filing_size_chars left out)
SegmentBreakdown(filing, filter, concepts_result) ==
    IF ~concepts_result.success THEN concepts_result
    ELSE IF SegmentMembers(concepts_result) = <<>>
            /\ FinancialConcepts(concepts_result, filter) = <<>>
    THEN [success |-> FALSE, error |-> "No segment or filtered concepts found in filing"]
    ELSE LET contexts == ContextsIn(filing)
             values == ValuesOf(filing)
             segment_data == SegmentDataUpTo(values, contexts, filter, Len(values))
         IN  [segment_data |-> segment_data,
              summary |->
                [total_segments_discovered |-> Len(segment_data),
                 concepts_found |-> Cardinality(UNION {
                     {segment_data[g].concepts[k].concept :
                        k \in 1..Len(segment_data[g].concepts)} :
                     g \in 1..Len(segment_data)}),
                 concept_filter_applied |-> IF filter # <<>> THEN filter ELSE <<"n", "o", "n", "e">>,
                 company_namespaces |-> concepts_result.company_namespaces],
              primary_concept |-> PrimaryConcept(segment_data),
              discovered_patterns |->
                [segment_members_found |-> Len(SegmentMembers(concepts_result)),
                 financial_concepts_found |-> Len(FinancialConcepts(concepts_result, filter)),
                 total_contexts_found |-> Len(contexts),
                 total_values_found |-> Len(values)],
              success |-> TRUE]

-----------------------------------------------------------------------------
(* get_segment_revenue_data_tool (server.py 1611-1853) *)

\* lines 1685-1686: what segment_pattern captures in a run of name
\* characters: the run up to its last Member that follows a Segment
SegmentNameIn(name) ==
    LET ends == {n \in 1..Len(name) :
                    /\ EndsWith(SubSeq(name, 1, n), <<"M", "e", "m", "b", "e", "r">>)
                    /\ Contains(SubSeq(name, 1, n - 6), <<"S", "e", "g", "m", "e", "n", "t">>)}
    IN  IF ends = {} THEN <<>>
        ELSE SubSeq(name, 1, CHOOSE n \in ends : \A m \in ends : m <= n)

\* lines 1685-1687: set(segment_matches)
SegmentMatches(filing, company_prefix) ==
    {SegmentNameIn(name) : name \in ConceptMatches(filing, company_prefix)} \ {<<>>}

\* the name="..." of a revenue_pattern: with wanted None the one of line
\* 1707, name="[^"]*[Rr]evenue[^"]*", else the one of line 1768, name="wanted"
NameAccepted(value, wanted) ==
    IF wanted = NoneStr
    THEN Contains(value, <<"R", "e", "v", "e", "n", "u", "e">>) \/ Contains(value, <<"r", "e", "v", "e", "n", "u", "e">>)
    ELSE value = wanted

\* the index of the contextRef="..." that revenue_pattern captures: the
\* last one before a name="..." the pattern accepts; 0 when there is none
RevenueContextRef(el, wanted) ==
    LET places == {i \in 1..Len(el.attrs) :
                      /\ el.attrs[i].attr = "contextRef"
                      /\ \E j \in (i + 1)..Len(el.attrs) :
                            /\ el.attrs[j].attr = "name"
                            /\ NameAccepted(el.attrs[j].value, wanted)}
    IN  IF places = {} THEN 0 ELSE CHOOSE i \in places : \A j \in places : j <= i

\* the index of the name="..." that revenue_pattern captures
RevenueName(el, wanted) ==
    CHOOSE j \in (RevenueContextRef(el, wanted) + 1)..Len(el.attrs) :
        /\ el.attrs[j].attr = "name"
        /\ NameAccepted(el.attrs[j].value, wanted)
        /\ \A k \in (j + 1)..Len(el.attrs) :
              ~(el.attrs[k].attr = "name" /\ NameAccepted(el.attrs[k].value, wanted))

\* lines 1707-1709 and 1768-1769: the elements revenue_pattern matches
RevenueMatches(filing, wanted) ==
    SelectSeq(Elements(filing), LAMBDA el :
        /\ el.tag = "ix:nonFraction"
        /\ RevenueContextRef(el, wanted) > 0
        /\ IsPlainText(el))

\* lines 1717-1718 and 1776-1777: the places of the context blocks with
\* id="context_ref"
ContextMatches(filing, context_ref) ==
    {i \in 1..Len(filing) :
        /\ filing[i].tag = "xbrli:context"
        /\ \E k \in 1..Len(filing[i].attrs) :
              filing[i].attrs[k].attr = "id" /\ filing[i].attrs[k].value = context_ref}

\* lines 1720 and 1785: segment_concept in the text of the block
InBlock(block, segment_concept) ==
    \E el \in {block} \cup Range(Flat([k \in 1..Len(block.items) |->
                    <<block.items[k]>> \o block.items[k].items])) :
        \E t \in ElementTexts(el) : Contains(t, segment_concept)

\* lines 1722-1724 and 1787-1791: end_date, the first endDate inside the
\* period of the block (an endDate of the model is inside a period or in
\* a block without one)
UnknownPeriod == <<"U", "n", "k", "n", "o", "w", "n">>

PeriodEndOf(block) ==
    LET dates == Flat([k \in 1..Len(block.items) |->
                    IF block.items[k].tag = "xbrli:period" /\ block.items[k].attrs = <<>>
                    THEN SelectSeq(block.items[k].items, LAMBDA el :
                            el.tag = "xbrli:endDate" /\ el.attrs = <<>> /\ IsPlainText(el))
                    ELSE <<>>])
    IN  IF dates = <<>> THEN UnknownPeriod ELSE dates[1].body

\* lines 1727 and 1794: clean_value
RevenueCleanValue(value_text) == SelectSeq(value_text, LAMBDA ch : ch \in Digits \cup {"."})

\* lines 1732-1736 and 1799-1803: the text scale_pattern captures: the
\* scale="..." of the first ix:nonFraction tag of the filing that has one
\* after contextRef="context_ref"; None when no tag has
ScaleText(filing, context_ref) ==
    LET scaled(el) == {j \in 1..Len(el.attrs) :
                          /\ el.attrs[j].attr = "scale"
                          /\ \E i \in 1..(j - 1) :
                                /\ el.attrs[i].attr = "contextRef"
                                /\ el.attrs[i].value = context_ref}
        tags == SelectSeq(Elements(filing), LAMBDA el :
                    el.tag = "ix:nonFraction" /\ scaled(el) # {})
    IN  IF tags = <<>> THEN NoneStr
        ELSE tags[1].attrs[CHOOSE j \in scaled(tags[1]) : \A k \in scaled(tags[1]) : k <= j].value

\* lines 1727-1760 and 1794-1827: the dict appended for a match, in a
\* sequence; empty when float() or int() raises ValueError (formatted_value
\* left out)
RevenueEntry(filing, el, wanted, block) ==
    LET context_ref == el.attrs[RevenueContextRef(el, wanted)].value
        clean_value == RevenueCleanValue(el.body)
        scale_text == ScaleText(filing, context_ref)
    IN  IF ~IsFloat(clean_value) THEN <<>>
        ELSE IF scale_text # NoneStr /\ ~IsInteger(scale_text) THEN <<>>
        ELSE <<[concept |-> IF wanted = NoneStr
                            THEN el.attrs[RevenueName(el, wanted)].value ELSE wanted,
                value |-> Scaled(FloatValue(clean_value),
                                 IF scale_text = NoneStr THEN 0 ELSE IntValue(scale_text)),
                end_date |-> PeriodEndOf(block),
                context_ref |-> context_ref]>>

\* lines 1704-1760: what the first loop appends, as (segment, dict) pairs in
\* the order appended
CompanyRevenue(filing, company_prefix, unique_segments) ==
    LET matches == RevenueMatches(filing, NoneStr)
        appended(segment, el) ==
            LET blocks == ContextMatches(filing, el.attrs[RevenueContextRef(el, NoneStr)].value)
                block == filing[CHOOSE i \in blocks : \A j \in blocks : i <= j]
                entry == RevenueEntry(filing, el, NoneStr, block)
            IN  IF blocks # {} /\ InBlock(block, company_prefix \o <<":">> \o segment)
                THEN [i \in 1..Len(entry) |-> [segment |-> segment, entry |-> entry[i]]]
                ELSE <<>>
    IN  Flat([s \in 1..Len(unique_segments) |->
            Flat([m \in 1..Len(matches) |-> appended(unique_segments[s], matches[m])])])

\* lines 1762-1766: us_gaap_revenue_concepts
us_gaap_revenue_concepts ==
    <<<<"u", "s", "-", "g", "a", "a", "p", ":", "R", "e", "v", "e", "n", "u", "e", "s">>,
      <<"u", "s", "-", "g", "a", "a", "p", ":", "R", "e", "v", "e", "n", "u", "e", "F", "r", "o", "m", "C", "o", "n", "t", "r", "a", "c", "t", "W", "i", "t", "h", "C", "u", "s", "t", "o", "m", "e", "r", "E", "x", "c", "l", "u", "d", "i", "n", "g", "A", "s", "s", "e", "s", "s", "e", "d", "T", "a", "x">>,
      <<"u", "s", "-", "g", "a", "a", "p", ":", "S", "a", "l", "e", "s", "R", "e", "v", "e", "n", "u", "e", "N", "e", "t">>>>

\* lines 1768-1829: what the second loop appends
UsGaapRevenue(filing, company_prefix, unique_segments) ==
    LET appended(wanted, el, segment) ==
            LET blocks == ContextMatches(filing, el.attrs[RevenueContextRef(el, wanted)].value)
                block == filing[CHOOSE i \in blocks : \A j \in blocks : i <= j]
                entry == RevenueEntry(filing, el, wanted, block)
            IN  IF blocks # {} /\ InBlock(block, company_prefix \o <<":">> \o segment)
                THEN [i \in 1..Len(entry) |-> [segment |-> segment, entry |-> entry[i]]]
                ELSE <<>>
    IN  Flat([c \in 1..Len(us_gaap_revenue_concepts) |->
            LET matches == RevenueMatches(filing, us_gaap_revenue_concepts[c])
            IN  Flat([m \in 1..Len(matches) |->
                    Flat([s \in 1..Len(unique_segments) |->
                        appended(us_gaap_revenue_concepts[c], matches[m], unique_segments[s])])])])

\* segment_revenues, its items in insertion order, from the pairs appended
SegmentRevenues(pairs) ==
    LET segments == Dedup([i \in 1..Len(pairs) |-> pairs[i].segment])
        of(segment) == SelectSeq(pairs, LAMBDA p : p.segment = segment)
    IN  [s \in 1..Len(segments) |->
            [segment |-> segments[s],
             facts |-> [k \in 1..Len(of(segments[s])) |-> of(segments[s])[k].entry]]]

\* lines 1631-1843: what the tool returns, company_namespaces and
\* unique_segments being in the order given; unique_segments is the order
\* for the prefix chosen (the fields cik, accession_number and note left out)
SegmentRevenueData(filing, company_namespaces, unique_segments) ==
    IF filing = <<>>
    THEN [success |-> FALSE, error |-> "Failed to fetch filing content"]
    ELSE IF company_namespaces = <<>>
    THEN [success |-> FALSE, error |-> "No company-specific namespace found"]
    ELSE IF unique_segments = <<>>
    THEN [success |-> FALSE, error |-> "No segment members found"]
    ELSE LET company_prefix == company_namespaces[1]
             segment_revenues ==
                SegmentRevenues(CompanyRevenue(filing, company_prefix, unique_segments)
                                \o UsGaapRevenue(filing, company_prefix, unique_segments))
         IN  [company_namespace |-> company_prefix,
              total_segments_found |-> Len(unique_segments),
              segments_with_revenue_data |-> Len(segment_revenues),
              segment_revenues |-> segment_revenues,
              all_segments_found |-> unique_segments,
              success |-> TRUE]

-----------------------------------------------------------------------------
(* The segment resolver as a state machine: one action per call *)

\* <tag>...</tag> with elements inside
Wrapper(tag, items) == Element(tag, <<>>, <<>>, items)

\* <xbrldi:explicitMember dimension=...>member</xbrldi:explicitMember>
ExplicitMember(dimension, member) ==
    Element("xbrldi:explicitMember", <<Attr("dimension", dimension)>>, member, <<>>)

\* <ix:nonFraction ...>shown</ix:nonFraction>, its attributes as written
NonFraction(attrs, shown) == Element("ix:nonFraction", attrs, shown, <<>>)

BusinessSegmentsAxis == <<"u", "s", "-", "g", "a", "a", "p", ":", "S", "t", "a", "t", "e", "m", "e", "n", "t", "B", "u", "s", "i", "n", "e", "s", "s", "S", "e", "g", "m", "e", "n", "t", "s", "A", "x", "i", "s">>
ProductOrServiceAxis == <<"s", "r", "t", ":", "P", "r", "o", "d", "u", "c", "t", "O", "r", "S", "e", "r", "v", "i", "c", "e", "A", "x", "i", "s">>

Duration ==
    Wrapper("xbrli:period", <<Leaf("xbrli:startDate", <<"2", "0", "2", "3", "-", "1", "0", "-", "0", "1">>),
                              Leaf("xbrli:endDate", <<"2", "0", "2", "4", "-", "0", "9", "-", "2", "8">>)>>)
Instant == Wrapper("xbrli:period", <<Leaf("xbrli:instant", <<"2", "0", "2", "4", "-", "0", "9", "-", "2", "8">>)>>)

\* the opening tag of a filing, with its namespace declarations
OpeningTags == {
    Element("html", <<Xmlns(<<"a", "a", "p", "l">>, <<"h", "t", "t", "p", ":", "/", "/", "w", "w", "w", ".", "a", "p", "p", "l", "e", ".", "c", "o", "m", "/", "2", "0", "2", "4", "0", "9", "2", "8">>),
                      Xmlns(<<"c", "y", "d">>, <<"h", "t", "t", "p", ":", "/", "/", "x", "b", "r", "l", ".", "s", "e", "c", ".", "g", "o", "v", "/", "c", "y", "d", "/", "2", "0", "2", "4">>),
                      Xmlns(<<"u", "s", "-", "g", "a", "a", "p">>, <<"h", "t", "t", "p", ":", "/", "/", "f", "a", "s", "b", ".", "o", "r", "g", "/", "u", "s", "-", "g", "a", "a", "p", "/", "2", "0", "2", "4">>)>>, <<>>, <<>>),
    Element("html", <<Xmlns(<<"u", "s", "-", "g", "a", "a", "p">>, <<"h", "t", "t", "p", ":", "/", "/", "f", "a", "s", "b", ".", "o", "r", "g", "/", "u", "s", "-", "g", "a", "a", "p", "/", "2", "0", "2", "4">>),
                      Xmlns(<<"s", "r", "t">>, <<"h", "t", "t", "p", ":", "/", "/", "f", "a", "s", "b", ".", "o", "r", "g", "/", "s", "r", "t", "/", "2", "0", "2", "4">>),
                      Xmlns(<<"a", "a", "p", "l">>, <<"h", "t", "t", "p", ":", "/", "/", "w", "w", "w", ".", "a", "p", "p", "l", "e", ".", "c", "o", "m", "/", "2", "0", "2", "4", "0", "9", "2", "8">>)>>, <<>>, <<>>),
    Element("html", <<Xmlns(<<"u", "s", "-", "g", "a", "a", "p">>, <<"h", "t", "t", "p", ":", "/", "/", "f", "a", "s", "b", ".", "o", "r", "g", "/", "u", "s", "-", "g", "a", "a", "p", "/", "2", "0", "2", "4">>)>>, <<>>, <<>>)
}

\* the context blocks of a filing: one member, another member, a member of
\* the same local name in another namespace, no member, two members, and
\* one member named as the two joined
SegmentContexts == <<
    Context(<<"s", "1">>, <<Wrapper("xbrli:segment",
                        <<ExplicitMember(BusinessSegmentsAxis, <<"a", "a", "p", "l", ":", "A", "m", "e", "r", "i", "c", "a", "s", "S", "e", "g", "m", "e", "n", "t", "M", "e", "m", "b", "e", "r">>)>>),
                     Duration>>),
    Context(<<"s", "2">>, <<Wrapper("xbrli:segment",
                        <<ExplicitMember(BusinessSegmentsAxis, <<"a", "a", "p", "l", ":", "E", "u", "r", "o", "p", "e", "S", "e", "g", "m", "e", "n", "t", "M", "e", "m", "b", "e", "r">>)>>),
                     Instant>>),
    Context(<<"s", "3">>, <<Wrapper("xbrli:segment",
                        <<ExplicitMember(BusinessSegmentsAxis, <<"s", "r", "t", ":", "A", "m", "e", "r", "i", "c", "a", "s", "S", "e", "g", "m", "e", "n", "t", "M", "e", "m", "b", "e", "r">>)>>),
                     Duration>>),
    Context(<<"s", "4">>, <<Instant>>),
    Context(<<"s", "5">>, <<Wrapper("xbrli:segment",
                        <<ExplicitMember(ProductOrServiceAxis, <<"a", "a", "p", "l", ":", "S", "e", "r", "v", "i", "c", "e", "R", "e", "v", "e", "n", "u", "e", "M", "e", "m", "b", "e", "r">>),
                          ExplicitMember(BusinessSegmentsAxis, <<"a", "a", "p", "l", ":", "E", "u", "r", "o", "p", "e", "S", "e", "g", "m", "e", "n", "t", "M", "e", "m", "b", "e", "r">>)>>),
                     Duration>>),
    Context(<<"s", "6">>, <<Wrapper("xbrli:segment",
                        <<ExplicitMember(BusinessSegmentsAxis,
                              <<"u", "s", "-", "g", "a", "a", "p", ":", "S", "e", "r", "v", "i", "c", "e", "R", "e", "v", "e", "n", "u", "e", "M", "e", "m", "b", "e", "r", "_", "E", "u", "r", "o", "p", "e", "S", "e", "g", "m", "e", "n", "t", "M", "e", "m", "b", "e", "r">>)>>),
                     Duration>>) >>

\* the context blocks a filing opens with
ContextLists == {<<>>, SegmentContexts}

\* the fact tags of a filing
SegmentFacts == {
    NonFraction(<<Attr("contextRef", <<"s", "1">>), Attr("name", <<"u", "s", "-", "g", "a", "a", "p", ":", "R", "e", "v", "e", "n", "u", "e", "s">>),
                  Attr("scale", <<"6">>)>>, <<"1", ",", "2", "3", "4">>),
    NonFraction(<<Attr("contextRef", <<"s", "2">>), Attr("name", <<"a", "a", "p", "l", ":", "S", "e", "g", "m", "e", "n", "t", "R", "e", "v", "e", "n", "u", "e">>)>>, <<"5", "0", "0">>),
    NonFraction(<<Attr("contextRef", <<"s", "9">>), Attr("name", <<"u", "s", "-", "g", "a", "a", "p", ":", "R", "e", "v", "e", "n", "u", "e", "s">>),
                  Attr("scale", <<"3">>)>>, <<"7", "7">>),
    NonFraction(<<Attr("contextRef", <<"s", "1">>), Attr("name", <<"u", "s", "-", "g", "a", "a", "p", ":", "O", "p", "e", "r", "a", "t", "i", "n", "g", "I", "n", "c", "o", "m", "e", "L", "o", "s", "s">>),
                  Attr("scale", <<"3">>)>>, <<"(", "1", "0", ")">>),
    NonFraction(<<Attr("name", <<"u", "s", "-", "g", "a", "a", "p", ":", "R", "e", "v", "e", "n", "u", "e", "s">>), Attr("contextRef", <<"s", "3">>),
                  Attr("scale", <<"6">>)>>, <<"2">>),
    NonFraction(<<Attr("scale", <<"3">>), Attr("contextRef", <<"s", "4">>),
                  Attr("name", <<"u", "s", "-", "g", "a", "a", "p", ":", "S", "a", "l", "e", "s", "R", "e", "v", "e", "n", "u", "e", "N", "e", "t">>)>>, <<"5">>),
    NonFraction(<<Attr("contextRef", <<"s", "5">>), Attr("name", <<"u", "s", "-", "g", "a", "a", "p", ":", "R", "e", "v", "e", "n", "u", "e", "s">>),
                  Attr("scale", <<"-", "2">>)>>, <<"4", ".", "5">>),
    NonFraction(<<Attr("contextRef", <<"s", "6">>), Attr("name", <<"u", "s", "-", "g", "a", "a", "p", ":", "R", "e", "v", "e", "n", "u", "e", "s">>),
                  Attr("scale", <<"0">>)>>, <<"9">>)
}

RECURSIVE FactLists(_)
FactLists(n) ==
    IF n = 0 THEN {<<>>}
    ELSE FactLists(n - 1) \cup {f \o <<el>> : f \in FactLists(n - 1), el \in SegmentFacts}

\* an opening tag that declares the company prefix and the standard prefix
\* srt, the latter in capitals
CapitalsTag ==
    Element("html", <<Xmlns(<<"S", "R", "T">>, <<"h", "t", "t", "p", ":", "/", "/", "f", "a", "s", "b", ".", "o", "r", "g", "/", "s", "r", "t", "/", "2", "0", "2", "4">>),
                      Xmlns(<<"a", "a", "p", "l">>, <<"h", "t", "t", "p", ":", "/", "/", "w", "w", "w", ".", "a", "p", "p", "l", "e", ".", "c", "o", "m", "/", "2", "0", "2", "4", "0", "9", "2", "8">>)>>, <<>>, <<>>)

\* an opening tag that declares the company prefix alone
CompanyTag ==
    Element("html", <<Xmlns(<<"a", "a", "p", "l">>, <<"h", "t", "t", "p", ":", "/", "/", "w", "w", "w", ".", "a", "p", "p", "l", "e", ".", "c", "o", "m", "/", "2", "0", "2", "4", "0", "9", "2", "8">>)>>, <<>>, <<>>)

\* filings whose names bring out the keyword categories: a name that holds
\* a word twice; two names that share the word "other" and nothing else,
\* beside a name of other words; two names that share nine words; and a
\* standard prefix declared and used in capitals
KeywordFilings == {
    <<CompanyTag,
      NonFraction(<<Attr("contextRef", <<"s", "1">>), Attr("name", <<"a", "a", "p", "l", ":", "S", "a", "l", "e", "s", "T", "o", "S", "a", "l", "e", "s", "R", "a", "t", "i", "o">>)>>, <<"7">>)>>,
    <<CompanyTag,
      Context(<<"s", "7">>, <<Wrapper("xbrli:segment",
                          <<ExplicitMember(<<"a", "a", "p", "l", ":", "O", "t", "h", "e", "r", "P", "r", "o", "d", "u", "c", "t", "s", "A", "x", "i", "s">>, <<"a", "a", "p", "l", ":", "O", "t", "h", "e", "r", "S", "e", "r", "v", "i", "c", "e", "s", "M", "e", "m", "b", "e", "r">>)>>),
                       Duration>>),
      NonFraction(<<Attr("contextRef", <<"s", "7">>), Attr("name", <<"a", "a", "p", "l", ":", "S", "e", "g", "m", "e", "n", "t", "R", "e", "v", "e", "n", "u", "e">>)>>, <<"8">>)>>,
    <<CompanyTag,
      Context(<<"s", "8">>, <<Wrapper("xbrli:segment",
                          <<ExplicitMember(<<"a", "a", "p", "l", ":", "N", "e", "t", "C", "a", "s", "h", "D", "e", "b", "t", "L", "o", "a", "n", "B", "o", "n", "d", "N", "o", "t", "e", "F", "u", "n", "d", "R", "e", "n", "t", "L", "a", "n", "d", "A", "x", "i", "s">>,
                                           <<"a", "a", "p", "l", ":", "N", "e", "t", "C", "a", "s", "h", "D", "e", "b", "t", "L", "o", "a", "n", "B", "o", "n", "d", "N", "o", "t", "e", "F", "u", "n", "d", "R", "e", "n", "t", "L", "a", "n", "d", "M", "e", "m", "b", "e", "r">>)>>),
                       Duration>>)>>,
    <<CapitalsTag,
      Context(<<"s", "1">>, <<Wrapper("xbrli:segment",
                          <<ExplicitMember(BusinessSegmentsAxis, <<"S", "R", "T", ":", "A", "m", "e", "r", "i", "c", "a", "s", "S", "e", "g", "m", "e", "n", "t", "M", "e", "m", "b", "e", "r">>)>>),
                       Duration>>),
      NonFraction(<<Attr("contextRef", <<"s", "1">>), Attr("name", <<"u", "s", "-", "g", "a", "a", "p", ":", "R", "e", "v", "e", "n", "u", "e", "s">>)>>, <<"6">>)>>
}

\* the contents fetch_filing_txt returns: nothing, or an opening tag, the
\* context blocks and up to MaxSegmentFacts fact tags, or one of the filings
\* of KeywordFilings
SegmentFilings ==
    {<<>>} \cup {<<h>> \o c \o f : h \in OpeningTags, c \in ContextLists, f \in FactLists(MaxSegmentFacts)}
        \cup KeywordFilings

\* the concept_filter arguments
ConceptFilters == {<<>>, <<"r", "e", "v", "e", "n", "u", "e">>}

InitSegments ==
    /\ seg_content \in SegmentFilings
    /\ concept_filter = <<>>
    /\ seg_tool = "none"
    /\ seg_result = [success |-> FALSE]
    /\ IdleChunk
    /\ IdleSect
    /\ IdleDemux
    /\ IdleXbrl
    /\ IdleMore

\* the tool called returns run_result
Returns(called, run_result) ==
    /\ seg_tool' = called
    /\ seg_result' = run_result
    /\ UNCHANGED seg_content
    /\ UNCHANGED <<chunkVars, sectVars, demuxVars, xbrlVars, moreVars>>

\* get_company_specific_concepts_tool(cik, accession_number): the sets
\* come out in one of their orders
GetCompanySpecificConcepts ==
    /\ seg_tool = "none"
    /\ UNCHANGED concept_filter
    /\ \E company_namespaces \in Orderings(CompanyNamespaces(seg_content, standard_namespaces)) :
        \E unique \in UniqueConceptOrders(seg_content, Range(company_namespaces)) :
            Returns("get_company_specific_concepts",
                    CompanySpecificConcepts(seg_content, company_namespaces, unique))

\* get_segment_revenue_data_tool(cik, accession_number)
GetSegmentRevenueData ==
    /\ seg_tool = "none"
    /\ UNCHANGED concept_filter
    /\ \E company_namespaces \in
            Orderings(CompanyNamespaces(seg_content, revenue_standard_namespaces)) :
        \E unique_segments \in
                Orderings(IF company_namespaces = <<>> THEN {}
                          ELSE SegmentMatches(seg_content, company_namespaces[1])) :
            Returns("get_segment_revenue_data",
                    SegmentRevenueData(seg_content, company_namespaces, unique_segments))

\* get_segment_breakdown_tool(cik, accession_number, concept_filter)
GetSegmentBreakdown ==
    /\ seg_tool = "none"
    /\ concept_filter' \in ConceptFilters
    /\ \E company_namespaces \in Orderings(CompanyNamespaces(seg_content, standard_namespaces)) :
        \E unique \in UniqueConceptOrders(seg_content, Range(company_namespaces)) :
            Returns("get_segment_breakdown",
                    SegmentBreakdown(seg_content, concept_filter',
                        CompanySpecificConcepts(seg_content, company_namespaces, unique)))

\* the namespace and category arguments of list_company_specific_concepts:
\* no filter, a namespace of the filing with a category, and a namespace
\* the filing does not declare
ListFilters ==
    {[namespace |-> NoneStr, category |-> NoneStr],
     [namespace |-> <<"a", "a", "p", "l">>, category |-> <<"m", "e", "m", "b", "e", "r", "_", "c", "o", "n", "c", "e", "p", "t", "s">>],
     [namespace |-> <<"m", "s", "f", "t">>, category |-> NoneStr]}

\* list_company_specific_concepts_tool(cik, accession_number, namespace,
\* category): the sets come out in one of their orders
ListCompanySpecificConceptsCall ==
    /\ seg_tool = "none"
    /\ UNCHANGED concept_filter
    /\ \E company_namespaces \in Orderings(CompanyNamespaces(seg_content, standard_namespaces)) :
        \E unique \in UniqueConceptOrders(seg_content, Range(company_namespaces)) :
            \E filters \in ListFilters :
                Returns("list_company_specific_concepts",
                        ListCompanySpecificConcepts(seg_content, filters.namespace,
                            filters.category, company_namespaces, unique))

NextSegments ==
    \/ GetCompanySpecificConcepts
    \/ GetSegmentRevenueData
    \/ GetSegmentBreakdown
    \/ ListCompanySpecificConceptsCall

SpecSegments == InitSegments /\ [][NextSegments]_vars

-----------------------------------------------------------------------------
(* The company facts endpoints (server.py 750-976).  A call either returns *)
(* a dict or raises; the dict a JSON object parses to is held as the       *)
(* sequence of its items.                                                  *)

\* the width str.zfill pads the cik to (lines 764, 805)
CikWidth == 10

\* int(cik) succeeds: after trimming, an optional sign, then digits
PyIntOk(cik) == IsDigits(Unsigned(Strip(cik)))

\* int(cik)
PyInt(cik) ==
    LET t == Strip(cik)
    IN  IF t[1] = "-" THEN 0 - DigitsValue(Tail(t), Len(t) - 1)
        ELSE DigitsValue(Unsigned(t), Len(Unsigned(t)))

\* str(n) for n >= 0
RECURSIVE StrOfNat(_)
StrOfNat(n) ==
    LET digit == <<"0", "1", "2", "3", "4", "5", "6", "7", "8", "9">>[(n % 10) + 1]
    IN  IF n < 10 THEN <<digit>> ELSE Append(StrOfNat(n \div 10), digit)

\* str(n)
StrOfInt(n) == IF n < 0 THEN <<"-">> \o StrOfNat(0 - n) ELSE StrOfNat(n)

\* s.zfill(width): zeros after the sign
ZFill(s, width) ==
    LET zeros == [i \in 1..Max(width - Len(s), 0) |-> "0"]
    IN  IF s # <<>> /\ s[1] \in {"-", "+"} THEN <<s[1]>> \o zeros \o Tail(s)
        ELSE zeros \o s

\* lines 764, 805: f"CIK{str(int(cik)).zfill(10)}", for a cik int() accepts
FormattedCik(cik) == <<"C", "I", "K">> \o ZFill(StrOfInt(PyInt(cik)), CikWidth)

\* a call returned the dict, or raised the exception
Returned(dict) == [outcome |-> "returned", result |-> dict]
Raised(exception) == [outcome |-> "raised", result |-> [exception |-> exception]]

\* the try block raises before its return: int(cik) fails (lines 764, 835,
\* 925), or requests.get, raise_for_status or response.json() does
TryRaises(cik, resp) == ~PyIntOk(cik) \/ resp.status # "ok"

\* the dict of an except clause (lines 802-807, 898-904, 970-976), whose
\* formatted_cik calls int(cik) again (the text of the exception left out of
\* error)
ExceptClause(cik, error, more) ==
    IF PyIntOk(cik)
    THEN Returned([error |-> error, cik |-> cik, formatted_cik |-> FormattedCik(cik),
                   more |-> more, success |-> FALSE])
    ELSE Raised("ValueError")

\* data["facts"] has the category: its index in the items, 0 when
\* "facts" or the category is missing
CategoryIndex(data, category) ==
    IF ~data.has_facts THEN 0
    ELSE LET places == {i \in 1..Len(data.facts) : data.facts[i].category = category}
         IN  IF places = {} THEN 0 ELSE CHOOSE i \in places : TRUE

\* list(data.get("facts", {}).keys())
AvailableCategories(data) ==
    IF data.has_facts THEN [i \in 1..Len(data.facts) |-> data.facts[i].category] ELSE <<>>

\* lines 762-807: get_company_facts_summary_tool (api_url, total_size_mb,
\* total_characters and note left out)
CompanyFactsSummary(cik, resp) ==
    IF TryRaises(cik, resp)
    THEN ExceptClause(cik, "Failed to get company facts summary", <<>>)
    ELSE IF resp.data.has_facts
    THEN Returned([cik |-> FormattedCik(cik),
                   entity_name |-> resp.data.entityName,
                   fact_categories |-> AvailableCategories(resp.data),
                   categories |-> [i \in 1..Len(resp.data.facts) |->
                        [category |-> resp.data.facts[i].category,
                         concept_count |-> Len(resp.data.facts[i].concepts),
                         sample_concepts |-> Slice(resp.data.facts[i].concepts, 0, 10)]],
                   success |-> TRUE])
    ELSE Returned([cik |-> FormattedCik(cik),
                   entity_name |-> resp.data.entityName,
                   success |-> TRUE])

\* lines 833-904: get_company_facts_concepts_tool with concepts None
\* (api_url and the concept_data left out)
CompanyFactsConcepts(cik, category, start_index, max_concepts, resp) ==
    IF TryRaises(cik, resp)
    THEN ExceptClause(cik, "Failed to get company facts concepts", category)
    ELSE IF CategoryIndex(resp.data, category) = 0
    THEN Returned([error |-> "Category not found in company facts",
                   available_categories |-> AvailableCategories(resp.data),
                   cik |-> FormattedCik(cik),
                   success |-> FALSE])
    ELSE LET all_concepts == resp.data.facts[CategoryIndex(resp.data, category)].concepts
             end_index == Min(start_index + max_concepts, Len(all_concepts))
             selected_concept_names == Slice(all_concepts, start_index, end_index)
         IN  Returned([cik |-> FormattedCik(cik),
                       category |-> category,
                       start_index |-> start_index,
                       end_index |-> end_index - 1,
                       returned_concepts |-> Len(selected_concept_names),
                       total_available_concepts |-> Len(all_concepts),
                       concept_names |-> selected_concept_names,
                       pagination |->
                         [has_next |-> end_index < Len(all_concepts),
                          has_prev |-> start_index > 0,
                          next_start |-> IF end_index < Len(all_concepts) THEN end_index ELSE None,
                          prev_start |-> IF start_index > 0
                                         THEN Max(0, start_index - max_concepts) ELSE None],
                       success |-> TRUE])

\* lines 923-976: list_company_facts_concepts_tool, search_term None when
\* it is NoneStr (sample_usage left out)
ListCompanyFactsConcepts(cik, category, search_term, resp) ==
    IF TryRaises(cik, resp)
    THEN ExceptClause(cik, "Failed to list company facts concepts", category)
    ELSE IF CategoryIndex(resp.data, category) = 0
    THEN Returned([error |-> "Category not found",
                   available_categories |-> AvailableCategories(resp.data),
                   cik |-> FormattedCik(cik),
                   success |-> FALSE])
    ELSE LET all_concepts == resp.data.facts[CategoryIndex(resp.data, category)].concepts
             filtered_concepts ==
                IF Truthy(search_term)
                THEN SelectSeq(all_concepts, LAMBDA c : Contains(LowerSeq(c), LowerSeq(search_term)))
                ELSE all_concepts
         IN  Returned([cik |-> FormattedCik(cik),
                       category |-> category,
                       search_term |-> search_term,
                       total_concepts |-> Len(all_concepts),
                       filtered_concepts |-> Len(filtered_concepts),
                       concepts |-> SortedList(filtered_concepts),
                       success |-> TRUE])

-----------------------------------------------------------------------------
(* The endpoints as a state machine: one action per call *)

\* the cik arguments: decimal, padded, with a sign, with blanks around it,
\* and not a decimal integer
Ciks == {<<"3", "2", "0", "1", "9", "3">>, <<"0", "0", "0", "0", "3", "2", "0", "1", "9", "3">>, <<"-", "5">>, <<" ", "1", "2", "\n">>, <<"+", "7">>, <<"A", "A", "P", "L">>, <<"1", "2", "a">>, <<>>, <<"1", ".", "5">>}

UsGaap == <<"u", "s", "-", "g", "a", "a", "p">>
Dei == <<"d", "e", "i">>

\* what the request gives: an error status, a body that is not JSON, or
\* the JSON object of the company
Responses == {
    [status |-> "http_error"],
    [status |-> "not_json"],
    [status |-> "ok", data |-> [has_facts |-> FALSE, entityName |-> <<"A", "p", "p", "l", "e", " ", "I", "n", "c", ".">>, facts |-> <<>>]],
    [status |-> "ok", data |-> [has_facts |-> TRUE, entityName |-> <<"A", "p", "p", "l", "e", " ", "I", "n", "c", ".">>, facts |-> <<>>]],
    [status |-> "ok", data |-> [has_facts |-> TRUE, entityName |-> <<"A", "p", "p", "l", "e", " ", "I", "n", "c", ".">>,
        facts |-> <<[category |-> Dei, concepts |-> <<<<"E", "n", "t", "i", "t", "y", "C", "o", "m", "m", "o", "n", "S", "t", "o", "c", "k", "S", "h", "a", "r", "e", "s", "O", "u", "t", "s", "t", "a", "n", "d", "i", "n", "g">>>>],
                    [category |-> UsGaap, concepts |-> <<<<"R", "e", "v", "e", "n", "u", "e", "s">>, <<"A", "s", "s", "e", "t", "s">>, <<"C", "o", "s", "t", "O", "f", "R", "e", "v", "e", "n", "u", "e">>>>]>>]] }

Categories == {UsGaap, Dei}
SearchTerms == {NoneStr, <<>>, <<"r", "e", "v", "e", "n", "u", "e">>}

\* the largest start_index and max_concepts of a call
MaxConcepts == 2

InitEndpoints ==
    /\ ep_cik \in Ciks
    /\ ep_response \in Responses
    /\ ep_tool = "none"
    /\ ep_outcome = "idle"
    /\ ep_result = [success |-> FALSE]
    /\ IdleChunk
    /\ IdleSect
    /\ IdleDemux
    /\ IdleXbrl
    /\ IdleSeg
    /\ IdlePaging
    /\ IdleTicker

\* the tool called ends as the call does
Ends(called, call) ==
    /\ ep_tool = "none"
    /\ ep_tool' = called
    /\ ep_outcome' = call.outcome
    /\ ep_result' = call.result
    /\ UNCHANGED <<ep_cik, ep_response>>
    /\ UNCHANGED <<chunkVars, sectVars, demuxVars, xbrlVars, segVars, pagingVars, tickerVars>>

\* get_company_facts_summary_tool(cik)
GetCompanyFactsSummary ==
    Ends("get_company_facts_summary", CompanyFactsSummary(ep_cik, ep_response))

\* get_company_facts_concepts_tool(cik, category, None, start_index, max_concepts)
GetCompanyFactsConcepts ==
    \E category \in Categories, start_index \in 0..MaxConcepts, max_concepts \in 1..MaxConcepts :
        Ends("get_company_facts_concepts",
             CompanyFactsConcepts(ep_cik, category, start_index, max_concepts, ep_response))

\* list_company_facts_concepts_tool(cik, category, search_term)
ListCompanyFactsConceptsCall ==
    \E category \in Categories, search_term \in SearchTerms :
        Ends("list_company_facts_concepts",
             ListCompanyFactsConcepts(ep_cik, category, search_term, ep_response))

NextEndpoints == GetCompanyFactsSummary \/ GetCompanyFactsConcepts \/ ListCompanyFactsConceptsCall

SpecEndpoints == InitEndpoints /\ [][NextEndpoints]_vars

-----------------------------------------------------------------------------
(* A client that reads a filing page by page (server.py 345-424) *)

\* stream_filing_txt_chunks_tool(cik, accession_number, cs, start_chunk,
\* max_chunks) on the document text: the endpoint cleans the document,
\* extracts its sections, chunks them and returns the page; the client, who
\* asks for max_chunks chunks a page, adds the chunks of the page to those
\* it has
StreamRequest(cs, start_chunk, max_chunks) ==
    /\ text_content' = CleanText(text)
    /\ section_matches' = SectionMatches(text_content')
    /\ sections' = SectionsOf(text_content', section_matches')
    /\ by_chunk_size' = cs
    /\ by_overlap_size' = DefaultOverlap
    /\ all_chunks' = ChunkBySections(sections', cs, DefaultOverlap)
    /\ response' = Page(all_chunks', start_chunk, max_chunks)
    /\ spc' = "response"
    /\ pg_max_chunks' = max_chunks
    /\ pg_received' = pg_received \o response'.chunks
    /\ pg_requests' = pg_requests + 1
    /\ pg_state' = IF response'.pagination.has_next THEN "paging" ELSE "done"
    /\ UNCHANGED text

InitPaging ==
    /\ text \in SectionTexts(MaxFragments)
    /\ text_content = <<>>
    /\ section_matches = <<>>
    /\ sections = <<>>
    /\ all_chunks = <<>>
    /\ by_chunk_size = 0
    /\ by_overlap_size = 0
    /\ response = [success |-> FALSE]
    /\ spc = "input"
    /\ pg_max_chunks = 0
    /\ pg_received = <<>>
    /\ pg_requests = 0
    /\ pg_state = "start"
    /\ IdleChunk
    /\ IdleDemux
    /\ IdleXbrl
    /\ IdleSeg
    /\ IdleEndpoints
    /\ IdleTicker

\* the first request: start_chunk = 0, with the chunk_size and the
\* max_chunks the client keeps to
FirstPage ==
    /\ pg_state = "start"
    /\ \E cs \in SectChunkSizes, max_chunks \in 1..MaxPage :
        StreamRequest(cs, 0, max_chunks)
    /\ UNCHANGED <<chunkVars, demuxVars, xbrlVars, segVars, epVars, tickerVars>>

\* a further request, while has_next: start_chunk = pagination.next_start
NextPage ==
    /\ pg_state = "paging"
    /\ response.pagination.has_next
    /\ StreamRequest(by_chunk_size, response.pagination.next_start, pg_max_chunks)
    /\ UNCHANGED <<chunkVars, demuxVars, xbrlVars, segVars, epVars, tickerVars>>

NextPaging == FirstPage \/ NextPage

SpecPaging == InitPaging /\ [][NextPaging]_vars

\* the client makes a request: the step of FirstPage and of NextPage, as
\* far as the client's count of them shows
Requesting ==
    /\ pg_state \in {"start", "paging"}
    /\ pg_requests' = pg_requests + 1

\* a client that is not done makes its next request in the end
FairPaging == SpecPaging /\ WF_pg_requests(Requesting)

-----------------------------------------------------------------------------
(* TickerCache (utils/cache.py) *)

\* the values of a JSON document
JsonStr(s) == [type |-> "str", s |-> s]
JsonInt(n) == [type |-> "int", n |-> n]
JsonNull == [type |-> "null"]
JsonList(items) == [type |-> "list", items |-> items]
\* an object: its members in document order
JsonDict(members) == [type |-> "dict", items |-> members]
Member(key, value) == [key |-> key, value |-> value]

\* bool(v), the test of `if ticker:`
JsonTruthy(v) ==
    CASE v.type = "str" -> v.s # <<>>
      [] v.type = "int" -> v.n # 0
      [] v.type = "null" -> FALSE
      [] OTHER -> v.items # <<>>

\* s.upper()
UpperSeq(s) ==
    LET up(ch) == IF \E i \in 1..26 : Lowercase[i] = ch
                  THEN Uppercase[CHOOSE i \in 1..26 : Lowercase[i] = ch]
                  ELSE ch
    IN  [i \in 1..Len(s) |-> up(s[i])]

\* d[key] = value for a dict held as a function
Put(d, key, value) == [k \in DOMAIN d \cup {key} |-> IF k = key THEN value ELSE d[k]]

\* d.get(key)
Get(d, key) == IF key \in DOMAIN d THEN d[key] ELSE JsonNull

\* lines 34 and 36-49: data_items, and the entries the loop goes through:
\* the values of a dict, the items of a list, nothing for anything else
DataItems(data) ==
    IF data.type = "dict" /\ \E i \in 1..Len(data.items) : data.items[i].key = "data"
    THEN data.items[CHOOSE i \in 1..Len(data.items) :
            /\ data.items[i].key = "data"
            /\ \A j \in (i + 1)..Len(data.items) : data.items[j].key # "data"].value
    ELSE data

EntriesOf(data_items) ==
    CASE data_items.type = "dict"
            -> [i \in 1..Len(data_items.items) |-> data_items.items[i].value]
      [] data_items.type = "list" -> data_items.items
      [] OTHER -> <<>>

\* lines 37-42 and 44-49: the loop from entry i on, the cache so far being
\* the dict built; an entry with a ticker that is not a string ends the
\* loop with the AttributeError of ticker.upper()
RECURSIVE BuildCache(_, _, _)
BuildCache(entries, i, built) ==
    IF i > Len(entries) THEN [raised |-> FALSE, built |-> built]
    ELSE LET company_data == entries[i]
         IN  IF company_data.type = "list" /\ Len(company_data.items) >= 3
             THEN LET cik == company_data.items[1]
                      ticker == company_data.items[3]
                  IN  IF ~JsonTruthy(ticker) THEN BuildCache(entries, i + 1, built)
                      ELSE IF ticker.type # "str" THEN [raised |-> TRUE, built |-> built]
                      ELSE BuildCache(entries, i + 1, Put(built, UpperSeq(ticker.s), cik))
             ELSE BuildCache(entries, i + 1, built)

\* the cache that is not loaded: _cache is None
Unloaded == [loaded |-> FALSE]

\* lines 22-52: _load_cache() when the SEC answers with resp and _cache is
\* before; whether it raised APIError, and _cache afterwards
LoadCache(before, resp) ==
    IF resp.status # "ok" THEN [raised |-> TRUE, cache |-> before]
    ELSE LET run == BuildCache(EntriesOf(DataItems(resp.data)), 1, <<>>)
         IN  [raised |-> run.raised, cache |-> [loaded |-> TRUE, map |-> run.built]]

\* an entry [cik, name, ticker]
Company(cik, name, ticker) == JsonList(<<JsonInt(cik), JsonStr(name), ticker>>)

Apple == Company(320193, <<"A", "p", "p", "l", "e", " ", "I", "n", "c", ".">>, JsonStr(<<"A", "A", "P", "L">>))
Microsoft == Company(789019, <<"M", "I", "C", "R", "O", "S", "O", "F", "T", " ", "C", "O", "R", "P">>, JsonStr(<<"m", "s", "f", "t">>))
Nvidia == Company(1045810, <<"N", "V", "I", "D", "I", "A", " ", "C", "O", "R", "P">>, JsonStr(<<"N", "V", "D", "A">>))

\* what the SEC answers to a fetch: an HTTP error, a body that is not JSON,
\* the list of entries under "data", a dict of entries, a bare list, a list
\* with entries the loop skips, a list with an entry whose ticker is a
\* number, first or in the middle, and a document that is a number
TickerResponses == {
    [status |-> "http_error"],
    [status |-> "not_json"],
    [status |-> "ok", data |-> JsonDict(<<Member("fields", JsonList(<<JsonStr(<<"c", "i", "k">>), JsonStr(<<"n", "a", "m", "e">>), JsonStr(<<"t", "i", "c", "k", "e", "r">>)>>)),
                                          Member("data", JsonList(<<Apple, Microsoft>>))>>)],
    [status |-> "ok", data |-> JsonDict(<<Member("0", Apple), Member("1", Nvidia)>>)],
    [status |-> "ok", data |-> JsonList(<<Nvidia>>)],
    [status |-> "ok", data |-> JsonList(<<JsonList(<<JsonInt(1), JsonStr(<<"x">>)>>), JsonStr(<<"A", "A", "P", "L">>),
                                          Company(2, <<"N", "o", " ", "t", "i", "c", "k", "e", "r">>, JsonNull),
                                          Company(3, <<"E", "m", "p", "t", "y">>, JsonStr(<<>>)),
                                          Company(4, <<"Z", "e", "r", "o">>, JsonInt(0)), Microsoft>>)],
    [status |-> "ok", data |-> JsonList(<<Apple, Company(789019, <<"M", "I", "C", "R", "O", "S", "O", "F", "T", " ", "C", "O", "R", "P">>, JsonInt(7)), Nvidia>>)],
    [status |-> "ok", data |-> JsonList(<<Company(789019, <<"M", "I", "C", "R", "O", "S", "O", "F", "T", " ", "C", "O", "R", "P">>, JsonInt(7)), Nvidia>>)],
    [status |-> "ok", data |-> JsonInt(5)]
}

\* the ticker arguments of get_cik
Tickers == {<<"a", "a", "p", "l">>, <<"M", "S", "F", "T">>, <<"n", "v", "d", "a">>}

InitTicker ==
    /\ tc_cache = Unloaded
    /\ tc_fetches = 0
    /\ tc_call = "none"
    /\ tc_ticker = <<>>
    /\ tc_outcome = "idle"
    /\ tc_result = [type |-> "null"]
    /\ IdleChunk
    /\ IdleSect
    /\ IdleDemux
    /\ IdleXbrl
    /\ IdleSeg
    /\ IdleEndpoints
    /\ IdlePaging

\* lines 14-20: get_cik(ticker); a cache that is None is loaded first, the
\* SEC answering with one of its responses
GetCik ==
    /\ \E ticker \in Tickers :
        /\ tc_ticker' = ticker
        /\ IF tc_cache = Unloaded
           THEN /\ tc_fetches < MaxFetches
                /\ \E resp \in TickerResponses :
                    LET load == LoadCache(tc_cache, resp)
                    IN  /\ tc_cache' = load.cache
                        /\ tc_fetches' = tc_fetches + 1
                        /\ tc_outcome' = IF load.raised THEN "APIError" ELSE "returned"
                        /\ tc_result' = IF load.raised THEN JsonNull
                                        ELSE Get(load.cache.map, UpperSeq(ticker))
           ELSE /\ tc_outcome' = "returned"
                /\ tc_result' = Get(tc_cache.map, UpperSeq(ticker))
                /\ UNCHANGED <<tc_cache, tc_fetches>>
    /\ tc_call' = "get_cik"
    /\ UNCHANGED <<chunkVars, sectVars, demuxVars, xbrlVars, segVars, epVars, pagingVars>>

\* lines 54-56: clear()
Clear ==
    /\ tc_cache' = Unloaded
    /\ tc_call' = "clear"
    /\ tc_outcome' = "returned"
    /\ tc_result' = JsonNull
    /\ UNCHANGED <<tc_fetches, tc_ticker>>
    /\ UNCHANGED <<chunkVars, sectVars, demuxVars, xbrlVars, segVars, epVars, pagingVars>>

NextTicker == GetCik \/ Clear

SpecTicker == InitTicker /\ [][NextTicker]_vars

-----------------------------------------------------------------------------
(* Claims about chunk_content *)

\* the overlap of chunk i with the chunk before it, by their recorded offsets
OverlapWithPrevious(cks, i) ==
    IF i = 1 THEN 0
    ELSE Max(0, cks[i-1].metadata.end_pos - cks[i].metadata.start_pos)

\* chunk i without the part that overlaps the chunk before it
ChunkCore(cks, i) ==
    SubSeq(cks[i].content, OverlapWithPrevious(cks, i) + 1, Len(cks[i].content))

RECURSIVE JoinCores(_, _)
JoinCores(cks, n) ==
    IF n = 0 THEN <<>> ELSE JoinCores(cks, n - 1) \o ChunkCore(cks, n)

\* C1: for chunk_size >= 1 and overlap_size < chunk_size, the chunks that
\* chunk_content returns, each without the part overlapping the previous one,
\* concatenate to the original content, whitespace included.
C1_RoundTrip ==
    (pc = "return" /\ chunk_size >= 1 /\ overlap_size < chunk_size)
        => JoinCores(chunks, Len(chunks)) = content

\* C2: every iteration of chunk_content's loop moves start forward by at least
\* one, whatever chunk_size and overlap_size are, so the loop runs at most
\* len(content) times.
C2_Terminates ==
    /\ [][(pc = "while" /\ start < Len(content)) => start' >= start + 1]_vars
    /\ [](iters <= Len(content))

\* the loop has run to its bound with a non-positive chunk_size and an
\* overlap_size that is not below it
C2_Witness ==
    /\ pc = "return"
    /\ chunk_size <= 0
    /\ overlap_size >= chunk_size
    /\ Len(content) >= 3
    /\ iters = Len(content)

\* C3: every chunk chunk_content returns, and every chunk chunk_by_sections
\* returns for the sections of extract_sections, has text left after trimming.
C3_ChunksNonEmpty ==
    /\ \A i \in 1..Len(chunks) : Strip(chunks[i].content) # <<>>
    /\ \A i \in 1..Len(all_chunks) : Strip(all_chunks[i].content) # <<>>

\* chunk_content has returned chunks and has passed over a window of
\* whitespace only
C3_Witness ==
    /\ pc = "return"
    /\ Len(chunks) >= 2
    /\ iters > Len(chunks)

-----------------------------------------------------------------------------
(* Claims about the section operations *)

\* the text extract_sections was given
SectionSource == IF spc = "response" THEN text_content ELSE text

IsComplete(ck) == ck.metadata.is_complete_section

FitsChunk(sec) == Len(sec.content) <= by_chunk_size

\* C4: chunk_by_sections turns every section no longer than chunk_size into
\* exactly one chunk, the section content unchanged and is_complete_section
\* true, and gives a longer section only chunks with is_complete_section false.
C4_SmallSections ==
    spc \in {"chunks", "response"} =>
        LET complete == SelectSeq(all_chunks, IsComplete)
            small == SelectSeq(sections, FitsChunk)
        IN  /\ Len(complete) = Len(small)
            /\ \A i \in 1..Len(small) :
                /\ complete[i].content = small[i].content
                /\ complete[i].section_name = small[i].name
                /\ complete[i].metadata.char_count <= by_chunk_size
            /\ \A i \in 1..Len(all_chunks) :
                ~IsComplete(all_chunks[i]) =>
                    all_chunks[i].metadata.section_char_count > by_chunk_size

\* chunk_by_sections has chunked a section that fits and one that does not
C4_Witness ==
    /\ spc = "chunks"
    /\ \E i, j \in 1..Len(all_chunks) :
        IsComplete(all_chunks[i]) /\ ~IsComplete(all_chunks[j])

\* where the span of section i ends: at the next match, or at the end
SpanEnd(i) ==
    IF i < Len(section_matches) THEN section_matches[i + 1].start
    ELSE Len(SectionSource)

\* C9: extract_sections returns one section per pattern match, in the order
\* of the match starts; section i holds the trimmed text from its match start
\* up to the next match start, the last one up to the end of the content, so
\* the spans are disjoint and contiguous, and word_count is the whitespace-split
\* word count of that text.
C9_SectionSpans ==
    spc \in {"sections", "chunks", "response"} =>
        /\ Len(sections) = Len(section_matches)
        /\ \A k \in 1..Len(section_patterns) :
            LET found == FindIter(section_patterns[k].atoms, SectionSource, 0)
            IN  {section_matches[i].start : i \in {j \in 1..Len(section_matches) :
                    section_matches[j].section_id = section_patterns[k].id}}
                = {found[i].start : i \in 1..Len(found)}
        /\ \A i \in 1..Len(sections) :
            /\ section_matches[i].start < SpanEnd(i)
            /\ sections[i].section_type = section_matches[i].section_id
            /\ sections[i].content =
                    Strip(SubSeq(SectionSource, section_matches[i].start + 1, SpanEnd(i)))
            /\ sections[i].word_count =
                    WordCount(SubSeq(SectionSource, section_matches[i].start + 1, SpanEnd(i)))

\* extract_sections has returned two sections of one identifier, the first
\* of them starting after the beginning of the content
C9_Witness ==
    /\ spc = "sections"
    /\ section_matches # <<>>
    /\ section_matches[1].start > 0
    /\ \E i, j \in 1..Len(sections) :
        i < j /\ sections[i].section_type = sections[j].section_type

\* C10: when no section pattern matches a non-empty text, extract_sections
\* returns no section and stream_filing_txt_chunks chunks the whole text as
\* one implicit section, so that total_chunks >= 1.
C10_ImplicitSection ==
    (spc = "response" /\ text_content # <<>> /\ section_matches = <<>>
        /\ by_chunk_size >= 1)
        => (sections = <<>> /\ response.pagination.total_chunks >= 1)

-----------------------------------------------------------------------------
(* Claims about the demultiplexer and the selector *)

\* whether the line after line i of the submission lies in an open <DOCUMENT>
RECURSIVE InsideDocument(_, _)
InsideDocument(txt, i) ==
    IF i = 0 THEN FALSE
    ELSE IF StartsWith(Strip(txt[i].line), DocumentTag) THEN TRUE
    ELSE IF StartsWith(Strip(txt[i].line), DocumentEndTag) THEN FALSE
    ELSE InsideDocument(txt, i - 1)

\* the </DOCUMENT> lines that close a block
BlockEnds(txt) ==
    {e \in 1..Len(txt) :
        StartsWith(Strip(txt[e].line), DocumentEndTag) /\ InsideDocument(txt, e - 1)}

\* the <DOCUMENT> line of the block that line e closes
BlockStart(txt, e) ==
    CHOOSE s \in 1..e :
        /\ StartsWith(Strip(txt[s].line), DocumentTag)
        /\ \A k \in (s + 1)..e : ~StartsWith(Strip(txt[k].line), DocumentTag)

\* the block that line e closes is the n-th block of the submission
BlockNumber(txt, e) == Cardinality({x \in BlockEnds(txt) : x <= e})

\* the block that line e closes has a line that starts with tag
BlockHas(txt, e, tag) ==
    \E k \in BlockStart(txt, e)..e : StartsWith(Strip(txt[k].line), tag)

\* a line that is neither blank, nor metadata, nor a tag alone
IsContentLine(line) ==
    /\ ~IsBlank(line)
    /\ \A tag \in {DocumentTag, DocumentEndTag, TypeTag, SequenceTag, FilenameTag,
                   DescriptionTag} : ~StartsWith(Strip(line), tag)
    /\ ~(StartsWith(Strip(line), <<"<">>) /\ EndsWith(Strip(line), <<">">>))

\* no complete block of the submission has a content line
NoContent(txt) ==
    \A e \in BlockEnds(txt) :
        \A k \in BlockStart(txt, e)..e : ~IsContentLine(txt[k].line)

\* C5: for a submission of N <DOCUMENT>...</DOCUMENT> blocks,
\* get_document_info_from_txt returns N records in block order, and the record
\* of a block without a <TYPE> line has type "UNKNOWN", that of a block
\* without a <FILENAME> line has filename "unknown", a block with no metadata
\* and no content included.
C5_RecordCount ==
    dpc = "info" =>
        /\ Len(result) = Cardinality(BlockEnds(txt_content))
        /\ \A e \in BlockEnds(txt_content) :
            LET record == result[BlockNumber(txt_content, e)]
            IN  /\ "type" \in DOMAIN record
                /\ "filename" \in DOMAIN record
                /\ BlockHas(txt_content, e, TypeTag) \/ record.type = UnknownType
                /\ BlockHas(txt_content, e, FilenameTag) \/ record.filename = Unknown

\* C6: for a text with no complete <DOCUMENT>...</DOCUMENT> block, and for one
\* whose blocks have no content, get_document_info_from_txt returns the empty
\* list and extract_main_document_from_txt and extract_best_content_from_txt
\* return the empty string.
C6_EmptyInput ==
    (/\ dpc \in {"info", "main", "best"}
     /\ BlockEnds(txt_content) = {} \/ NoContent(txt_content))
        => result = <<>>

\* the primary form types
PrimaryForms ==
    {<<"1", "0", "-", "K">>, <<"1", "0", "-", "Q">>, <<"8", "-", "K">>, <<"1", "0", "-", "K", "/", "A">>, <<"1", "0", "-", "Q", "/", "A">>, <<"8", "-", "K", "/", "A">>}

\* a document of primary form type whose stripped content is under 500 characters
IsPlaceholder(doc) == doc.type \in PrimaryForms /\ StrippedLen(doc.content) < 500

\* a document with a markup filename and more than 1000 meaningful lines
IsMarkupDocument(doc) ==
    EndsWith(doc.filename, <<".", "h", "t", "m">>) /\ MeaningfulLines(doc.content) > 1000

\* the content of a document as the call that has returned collects and
\* cleans it: extract_main_document_from_txt leaves every tag-only line out
ContentReturned(doc) ==
    IF dpc = "main"
    THEN CleanRuns(SelectSeq(doc.content,
             LAMBDA r : ~(/\ StartsWith(Strip(r.line), <<"<">>)
                          /\ EndsWith(Strip(r.line), <<">">>))))
    ELSE CleanRuns(doc.content)

\* C7: for a submission holding a placeholder document of primary form type
\* and another document with a markup filename and more than 1000 meaningful
\* lines, extract_main_document_from_txt and extract_best_content_from_txt
\* both return the content of the markup document, whatever the filename of
\* the placeholder and the order of the two.
C7_PlaceholderRegression ==
    dpc \in {"main", "best"} =>
        LET docs == BestParse(txt_content, Len(txt_content)).documents
            markup == {m \in 1..Len(docs) :
                          /\ IsMarkupDocument(docs[m])
                          /\ \E p \in 1..Len(docs) : p # m /\ IsPlaceholder(docs[p])}
        IN  markup # {} => \E m \in markup : result = ContentReturned(docs[m])

\* the bonuses of a document's score
ScoreBonus(doc) ==
    (IF doc.type \in PrimaryForms THEN 1000 ELSE 0)
    + (IF EndsWith(doc.filename, <<".", "h", "t", "m">>) THEN 500 ELSE 0)
    + (IF doc.meaningful_lines > 1000 THEN 300
       ELSE IF doc.meaningful_lines > 100 THEN 100 ELSE 0)

\* a thousand times the score of a document, total_chars / 1000 being the
\* exact quotient
ExactScoreTimes1000(doc) == 1000 * ScoreBonus(doc) + Min(doc.total_chars, 200 * 1000)

\* the score of a document, total_chars / 1000 being the quotient rounded down
FloorScore(doc) == ScoreBonus(doc) + Min(doc.total_chars \div 1000, 200)

\* C8, as stated: extract_best_content_from_txt returns the content of a
\* saved document whose score, +1000 for a primary form type, +500 for a
\* markup filename, +100 for more than 100 meaningful lines or +300 for more
\* than 1000, plus min(total_chars / 1000, 200), is the greatest of all.
C8_MaxScoreExact ==
    (dpc = "best" /\ documents # <<>>) =>
        \E i \in 1..Len(documents) :
            /\ result = CleanRuns(documents[i].content)
            /\ \A j \in 1..Len(documents) :
                ExactScoreTimes1000(documents[j]) <= ExactScoreTimes1000(documents[i])

\* C8, with the quotient rounded down: the score the code gives every saved
\* document is that sum, and extract_best_content_from_txt returns the
\* content of a saved document of greatest score.
C8_MaxScore ==
    (dpc = "best" /\ documents # <<>>) =>
        /\ \A j \in 1..Len(documents) : documents[j].score = FloorScore(documents[j])
        /\ \E i \in 1..Len(documents) :
            /\ result = CleanRuns(documents[i].content)
            /\ \A j \in 1..Len(documents) :
                FloorScore(documents[j]) <= FloorScore(documents[i])

\* extract_best_content_from_txt has returned the second of two saved
\* documents, one of a primary form type whose size points are capped
C8_Witness ==
    /\ dpc = "best"
    /\ Len(documents) = 2
    /\ documents[1].score < documents[2].score
    /\ documents[2].type \in PrimaryForms
    /\ documents[2].total_chars \div 1000 > 200
    /\ result = CleanRuns(documents[2].content)
    /\ result # CleanRuns(documents[1].content)

-----------------------------------------------------------------------------
(* Claims about the fact extractor *)

\* the element has an attribute a, and its value
HasAttribute(el, a) == \E i \in 1..Len(el.attrs) : el.attrs[i].attr = a

AttributeOf(el, a) ==
    el.attrs[CHOOSE i \in 1..Len(el.attrs) : el.attrs[i].attr = a].value

\* the numeric fact tags of the filing whose name is the concept, with or
\* without a namespace prefix
ConceptTags ==
    {i \in 1..Len(filing_content) :
        /\ filing_content[i].tag = "ix:nonFraction"
        /\ HasAttribute(filing_content[i], "name")
        /\ LET name == LowerSeq(AttributeOf(filing_content[i], "name"))
           IN  name = LowerSeq(concept) \/ EndsWith(name, <<":">> \o LowerSeq(concept))}

\* the filing has one numeric fact tag of the concept, and this is it
OnlyTag(i) == ConceptTags = {i}

\* a displayed number: digits with thousands separators, at most one point,
\* and around them a dollar sign, a minus sign or a pair of parentheses
IsDisplayedNumber(s) ==
    LET t == Strip(s)
    IN  /\ \A k \in 1..Len(t) : t[k] \in Digits \cup {",", ".", "$", "(", ")", "-"}
        /\ \E k \in 1..Len(t) : t[k] \in Digits
        /\ Cardinality({k \in 1..Len(t) : t[k] = "."}) <= 1
        /\ Cardinality({k \in 1..Len(t) : t[k] = "-"}) = 0
        /\ Cardinality({k \in 1..Len(t) : t[k] = "("})
            = Cardinality({k \in 1..Len(t) : t[k] = ")"})
        /\ Cardinality({k \in 1..Len(t) : t[k] = "("}) <= 1

\* a displayed number of the form "(n)"
IsParenthesised(s) ==
    IsDisplayedNumber(s) /\ \E k \in 1..Len(s) : s[k] = "("

\* the number displayed, parentheses making it negative
DisplayedValue(s) ==
    LET digits == SelectSeq(s, LAMBDA ch : ch \in Digits)
        places == {k \in 1..Len(s) : s[k] = "."}
        decimals == IF places = {} THEN 0
                    ELSE Cardinality({k \in 1..Len(s) :
                            s[k] \in Digits /\ k > CHOOSE p \in places : TRUE})
        magnitude == DigitsValue(digits, Len(digits))
    IN  Decimal(IF IsParenthesised(s) THEN 0 - magnitude ELSE magnitude, 0 - decimals)

\* the scale attribute of the tag, 0 when it has none
DeclaredScale(el) ==
    IF HasAttribute(el, "scale") THEN IntValue(AttributeOf(el, "scale")) ELSE 0

\* the context blocks of the filing with the id that the tag refers to
ContextsOf(el) ==
    IF ~HasAttribute(el, "contextRef") THEN {}
    ELSE {i \in 1..Len(filing_content) :
            /\ filing_content[i].tag = "xbrli:context"
            /\ HasAttribute(filing_content[i], "id")
            /\ AttributeOf(filing_content[i], "id") = AttributeOf(el, "contextRef")}

\* the instants and end dates that the context blocks of the tag declare
DeclaredDates(el) ==
    UNION {{filing_content[i].items[k].body :
               k \in {n \in 1..Len(filing_content[i].items) :
                   filing_content[i].items[n].tag \in {"xbrli:instant", "xbrli:endDate"}}} :
           i \in ContextsOf(el)}

C13_DanglingContext ==
    xpc = "extracted" =>
        \A i \in 1..Len(filing_content) :
            (/\ OnlyTag(i)
             /\ IsDisplayedNumber(filing_content[i].body)
             /\ ContextsOf(filing_content[i]) = {})
            => /\ extracted_value.source = "xbrl_direct_extraction"
               /\ extracted_value.raw_value = Strip(filing_content[i].body)
               /\ extracted_value.value =
                    Scaled(DisplayedValue(filing_content[i].body),
                           DeclaredScale(filing_content[i]))
               /\ extracted_value.period = NoneStr

\* a fact whose contextRef names no block has been returned from a filing
\* that has a context block of another id before the tag
C13_Witness ==
    /\ xpc = "extracted"
    /\ Len(filing_content) >= 2
    /\ filing_content[1].tag = "xbrli:context"
    /\ \E i \in 2..Len(filing_content) :
        /\ OnlyTag(i)
        /\ HasAttribute(filing_content[i], "contextRef")
        /\ ContextsOf(filing_content[i]) = {}
    /\ extracted_value.source = "xbrl_direct_extraction"
    /\ extracted_value.context_ref = <<"c", "9">>
    /\ extracted_value.period = NoneStr

\* the filing has no fact tag whose name holds the concept
NoTagForConcept ==
    \A i \in 1..Len(filing_content) :
        (filing_content[i].tag \in {"ix:nonFraction", "ix:nonNumeric"}
            /\ HasAttribute(filing_content[i], "name"))
        => ~Contains(LowerSeq(AttributeOf(filing_content[i], "name")), LowerSeq(concept))

Zero == Decimal(0, 0)

\* C14: _extract_xbrl_concept_value returns None, and no zero, when the
\* filing has no tag for the concept; a tag of the concept with the text "0"
\* gives a fact of value 0, and _get_xbrl_concept returns that fact and not
\* the fallback.
C14_AbsentOrZero ==
    /\ (xpc \in {"extracted", "concept"} /\ NoTagForConcept)
        => extracted_value = Absent
    /\ xpc \in {"extracted", "concept"} =>
        \A i \in 1..Len(filing_content) :
            (OnlyTag(i) /\ Strip(filing_content[i].body) = <<"0">>)
            => /\ extracted_value.source = "xbrl_direct_extraction"
               /\ extracted_value.value = Zero
               /\ xpc = "concept" =>
                    /\ xbrl_concept.source = "xbrl_direct_extraction"
                    /\ xbrl_concept.value = Zero
                    /\ xbrl_concept.raw_value = <<"0">>

\* _get_xbrl_concept has returned a fact of value zero
C14_Witness ==
    /\ xpc = "concept"
    /\ xbrl_concept.source = "xbrl_direct_extraction"
    /\ xbrl_concept.value = Zero
    /\ xbrl_concept.scale = 3


-----------------------------------------------------------------------------
(* Claims about chunk ordinals *)

\* the ordinals of a chunk list start at 0 and strictly increase along it
OrdinalsIncrease(cks) ==
    /\ (cks # <<>> => cks[1].chunk_index = 0)
    /\ \A i \in 1..(Len(cks) - 1) : cks[i].chunk_index < cks[i + 1].chunk_index

\* the list chunk_content returns has 0-based strictly increasing ordinals
ChunkContentOrdinals == pc = "return" => OrdinalsIncrease(chunks)

\* C16: in every chunk list returned by chunk_content and by
\* chunk_by_sections the chunk_index values are 0-based and strictly
\* increasing along the list
C16_ChunkOrdinals ==
    /\ ChunkContentOrdinals
    /\ spc = "chunks" => OrdinalsIncrease(all_chunks)

-----------------------------------------------------------------------------
(* Claims about the overlap of chunk_content *)

\* the characters [a, b) of the content lie inside the span of a returned chunk
Visible(a, b) ==
    \E i \in 1..Len(chunks) :
        /\ chunks[i].metadata.start_pos <= a
        /\ b <= chunks[i].metadata.end_pos

\* C17: for chunk_size >= 1 and 0 <= overlap_size < chunk_size, every
\* substring of the content of length at most overlap_size lies entirely
\* inside the [start_pos, end_pos) span of at least one returned chunk
C17_OverlapVisible ==
    (pc = "return" /\ chunk_size >= 1 /\ 0 <= overlap_size /\ overlap_size < chunk_size)
        => \A a \in 0..Len(content), b \in 0..Len(content) :
               (a < b /\ b - a <= overlap_size) => Visible(a, b)

\* the characters [a, b) of the content begin and end with the letter "a"
IsPhrase(a, b) == content[a + 1] = "a" /\ content[b] = "a"

\* the case of C17 for phrases: a substring of length at most overlap_size
\* that begins and ends with a letter lies inside the span of a returned chunk
C17_PhraseVisible ==
    (pc = "return" /\ chunk_size >= 1 /\ 0 <= overlap_size /\ overlap_size < chunk_size)
        => \A a \in 0..Len(content), b \in 0..Len(content) :
               (a < b /\ b - a <= overlap_size /\ IsPhrase(a, b)) => Visible(a, b)

-----------------------------------------------------------------------------
(* Claims about the determinism of the segment resolver *)

\* the members of a set of strings in ascending order
SortedOrder(S) == SortedList(CHOOSE s \in Orderings(S) : TRUE)

\* the run of get_company_specific_concepts_tool in which every set comes
\* out in ascending order
ReferenceConcepts(filing) ==
    LET prefixes == CompanyNamespaces(filing, standard_namespaces)
    IN  CompanySpecificConcepts(filing, SortedOrder(prefixes),
            [ns \in prefixes |-> SortedOrder(ConceptMatches(filing, ns))])

\* the run of get_segment_revenue_data_tool in which every set comes out in
\* ascending order
ReferenceRevenue(filing) ==
    LET company_namespaces == SortedOrder(CompanyNamespaces(filing, revenue_standard_namespaces))
    IN  SegmentRevenueData(filing, company_namespaces,
            IF company_namespaces = <<>> THEN <<>>
            ELSE SortedOrder(SegmentMatches(filing, company_namespaces[1])))

\* the run of the tool called in which every set comes out in ascending order
ReferenceRun ==
    CASE seg_tool = "get_company_specific_concepts" -> ReferenceConcepts(seg_content)
      [] seg_tool = "get_segment_revenue_data" -> ReferenceRevenue(seg_content)
      [] seg_tool = "get_segment_breakdown" ->
            SegmentBreakdown(seg_content, concept_filter, ReferenceConcepts(seg_content))

\* C15: two runs of get_company_specific_concepts, get_segment_revenue_data
\* or get_segment_breakdown over the same filing content return the same
\* result whatever the iteration order of the intermediate sets: every run
\* returns what the run with the sets in ascending order returns
C15_Deterministic ==
    seg_tool \in {"get_company_specific_concepts", "get_segment_revenue_data",
                  "get_segment_breakdown"}
        => seg_result = ReferenceRun

\* the parts of C15, one by one: the order of company_namespaces
C15_NamespaceOrder ==
    (seg_tool = "get_company_specific_concepts" /\ seg_result.success)
        => seg_result.company_namespaces = ReferenceRun.company_namespaces

\* the company prefix get_segment_revenue_data discovers segments with, and
\* whether it finds segments at all
C15_PrefixChoice ==
    seg_tool = "get_segment_revenue_data"
        => /\ seg_result.success = ReferenceRun.success
           /\ seg_result.success => seg_result.company_namespace = ReferenceRun.company_namespace

\* the keyword categories of every namespace, and their order
C15_Categories ==
    (seg_tool = "get_company_specific_concepts" /\ seg_result.success)
        => \A i \in 1..Len(seg_result.concepts_by_namespace) :
            \A j \in 1..Len(ReferenceRun.concepts_by_namespace) :
                seg_result.concepts_by_namespace[i].namespace = ReferenceRun.concepts_by_namespace[j].namespace
                    => seg_result.concepts_by_namespace[i].data.categories
                        = ReferenceRun.concepts_by_namespace[j].data.categories

\* the segment groupings of get_segment_revenue_data for one company prefix
C15_RevenueGroups ==
    (seg_tool = "get_segment_revenue_data" /\ seg_result.success /\ ReferenceRun.success
        /\ seg_result.company_namespace = ReferenceRun.company_namespace)
        => seg_result.segment_revenues = ReferenceRun.segment_revenues

\* the segment groupings of get_segment_breakdown
C15_BreakdownGroups ==
    (seg_tool = "get_segment_breakdown" /\ seg_result.success)
        => seg_result.segment_data = ReferenceRun.segment_data

-----------------------------------------------------------------------------
(* Claims about the grouping key of get_segment_breakdown *)

\* the context block a fact tag refers to
ContextOfFact(el) ==
    ContextContent(ContextsIn(seg_content), el.attrs[LastAttr(el, "contextRef")].value)

\* the fact tags of the filing that get_segment_breakdown reads and whose
\* context resolves
ResolvableFacts ==
    {el \in Range(ValuesOf(seg_content)) :
        ~Filtered(el, concept_filter) /\ HasContent(ContextOfFact(el))}

\* the member names the explicitMember elements of a context declare, in
\* document order
DeclaredMembers(ctx) ==
    LET declared == SelectSeq(Inside(ctx), LAMBDA el : el.tag = "xbrldi:explicitMember")
    IN  [i \in 1..Len(declared) |-> declared[i].body]

\* the member names without their namespace prefix
LocalMembers(ctx) ==
    [i \in 1..Len(DeclaredMembers(ctx)) |-> AfterLastColon(DeclaredMembers(ctx)[i])]

\* the groups of segment_data that hold the fact
GroupsHolding(el) ==
    {g \in 1..Len(seg_result.segment_data) :
        \E k \in 1..Len(seg_result.segment_data[g].concepts) :
            /\ seg_result.segment_data[g].concepts[k].concept = FullConcept(el)
            /\ \E f \in 1..Len(seg_result.segment_data[g].concepts[k].facts) :
                LET fact == seg_result.segment_data[g].concepts[k].facts[f]
                IN  /\ fact.context_ref = el.attrs[LastAttr(el, "contextRef")].value
                    /\ fact.raw_value = el.body}

\* C18: in get_segment_breakdown two facts with resolvable contexts are in
\* the same segment_data group when their contexts declare the same ordered
\* list of explicitMember member names, and in different groups when the
\* lists differ; the facts of contexts without explicitMember are a group
\* of their own
C18_GroupingKey ==
    (seg_tool = "get_segment_breakdown" /\ seg_result.success)
        => \A el1 \in ResolvableFacts, el2 \in ResolvableFacts :
            (DeclaredMembers(ContextOfFact(el1)) = DeclaredMembers(ContextOfFact(el2)))
                <=> (GroupsHolding(el1) \cap GroupsHolding(el2) # {})

\* C18 with the member names read without their namespace prefix
C18_LocalNames ==
    (seg_tool = "get_segment_breakdown" /\ seg_result.success)
        => \A el1 \in ResolvableFacts, el2 \in ResolvableFacts :
            (LocalMembers(ContextOfFact(el1)) = LocalMembers(ContextOfFact(el2)))
                <=> (GroupsHolding(el1) \cap GroupsHolding(el2) # {})

\* the half of C18 that holds: facts of contexts that declare the same list
\* are in one group, and every such fact is in a group
C18_SameListSameGroup ==
    (seg_tool = "get_segment_breakdown" /\ seg_result.success)
        => \A el1 \in ResolvableFacts, el2 \in ResolvableFacts :
            (DeclaredMembers(ContextOfFact(el1)) = DeclaredMembers(ContextOfFact(el2)))
                => (GroupsHolding(el1) \cap GroupsHolding(el2) # {})

\* the facts of contexts without explicitMember share a group with no fact
\* of a context that declares one
C18_NoMemberOwnGroup ==
    (seg_tool = "get_segment_breakdown" /\ seg_result.success)
        => \A el1 \in ResolvableFacts, el2 \in ResolvableFacts :
            (DeclaredMembers(ContextOfFact(el1)) = <<>> /\ DeclaredMembers(ContextOfFact(el2)) # <<>>)
                => (GroupsHolding(el1) \cap GroupsHolding(el2) = {})

-----------------------------------------------------------------------------
(* Claims about the scale in the segment resolver *)

\* the scale attribute of the tag itself, 0 when it has none
OwnScale(el) ==
    IF LastAttr(el, "scale") = 0 THEN 0
    ELSE IntValue(el.attrs[LastAttr(el, "scale")].value)

\* the facts get_segment_breakdown reports, each as a record
BreakdownFacts ==
    UNION {UNION {Range(seg_result.segment_data[g].concepts[k].facts) :
                    k \in 1..Len(seg_result.segment_data[g].concepts)} :
           g \in 1..Len(seg_result.segment_data)}

\* every value get_segment_breakdown reports is the number it parsed from
\* the text of a tag of that contextRef, times 10 to the scale of that tag
C19_BreakdownScale ==
    (seg_tool = "get_segment_breakdown" /\ seg_result.success)
        => \A fact \in BreakdownFacts :
            \E el \in ResolvableFacts :
                /\ el.attrs[LastAttr(el, "contextRef")].value = fact.context_ref
                /\ el.body = fact.raw_value
                /\ fact.value = Scaled(NumericValue(el.body), OwnScale(el))

\* the facts get_segment_revenue_data reports
RevenueFacts ==
    UNION {Range(seg_result.segment_revenues[s].facts) :
           s \in 1..Len(seg_result.segment_revenues)}

\* the ix:nonFraction tags of the filing with that contextRef and name
TagsOf(context_ref, named) ==
    {el \in Range(Elements(seg_content)) :
        /\ el.tag = "ix:nonFraction"
        /\ LastAttr(el, "contextRef") > 0
        /\ el.attrs[LastAttr(el, "contextRef")].value = context_ref
        /\ LastAttr(el, "name") > 0
        /\ el.attrs[LastAttr(el, "name")].value = named}

\* every value get_segment_revenue_data reports is the number it parsed
\* from the text of a tag of that contextRef and name, times 10 to the
\* scale of that tag
C19_RevenueScale ==
    (seg_tool = "get_segment_revenue_data" /\ seg_result.success)
        => \A fact \in RevenueFacts :
            \E el \in TagsOf(fact.context_ref, fact.concept) :
                /\ IsFloat(RevenueCleanValue(el.body))
                /\ fact.value = Scaled(FloatValue(RevenueCleanValue(el.body)), OwnScale(el))

\* C19: every value that get_segment_breakdown and get_segment_revenue_data
\* report for a fact is the decimal parsed from the fact times 10 to the
\* power of the scale attribute of that same tag, 0 when the tag has none
C19_ScaleApplied == C19_BreakdownScale /\ C19_RevenueScale

-----------------------------------------------------------------------------
(* Claims about a dangling contextRef in get_segment_breakdown *)

\* the fact tags get_segment_breakdown reads whose contextRef is the id of
\* no context block of the filing
DanglingFacts ==
    {el \in Range(ValuesOf(seg_content)) :
        /\ ~Filtered(el, concept_filter)
        /\ \A i \in 1..Len(seg_content) :
              seg_content[i].tag = "xbrli:context"
                  => \A k \in 1..Len(seg_content[i].attrs) :
                        ~(seg_content[i].attrs[k].attr = "id"
                          /\ seg_content[i].attrs[k].value
                                = el.attrs[LastAttr(el, "contextRef")].value)}

\* C20: a fact tag whose contextRef matches no context block is still in
\* the segment_data that get_segment_breakdown returns, with the end_date
\* "unknown"
C20_DanglingReturned ==
    (seg_tool = "get_segment_breakdown" /\ seg_result.success)
        => \A el \in DanglingFacts :
            \E fact \in BreakdownFacts :
                /\ fact.context_ref = el.attrs[LastAttr(el, "contextRef")].value
                /\ fact.raw_value = el.body
                /\ fact.end_date = UnknownDate

-----------------------------------------------------------------------------
(* Claims about the company facts endpoints *)

\* C21: no call of get_company_facts_summary, get_company_facts_concepts
\* or list_company_facts_concepts raises, whatever its arguments and whatever
\* the request gives; with a cik that is not a decimal integer the call
\* returns an envelope with success false
C21_NoUnhandledCrash ==
    ep_tool # "none"
        => /\ ep_outcome = "returned"
           /\ ~PyIntOk(ep_cik) => ep_result.success = FALSE

\* the part of C21 that holds: with a cik that int() accepts every call
\* returns, and with success false when the request fails
C21_NumericCik ==
    (ep_tool # "none" /\ PyIntOk(ep_cik))
        => /\ ep_outcome = "returned"
           /\ ep_response.status # "ok" => ep_result.success = FALSE

-----------------------------------------------------------------------------
(* Claims about the search priority of the fact extractor *)

\* the match class of a tag name for the concept: 1 when it is the concept
\* after a namespace prefix, 2 when it is the concept, 3 when it holds the
\* concept, 0 when it does not (letter case apart)
MatchClass(name) ==
    IF EndsWith(LowerSeq(name), <<":">> \o LowerSeq(concept)) THEN 1
    ELSE IF LowerSeq(name) = LowerSeq(concept) THEN 2
    ELSE IF Contains(LowerSeq(name), LowerSeq(concept)) THEN 3
    ELSE 0

\* the candidates of the filing: the fact tags, numeric or not, whose name
\* is in a match class and whose text is not a placeholder
UsableCandidates ==
    {i \in 1..Len(filing_content) :
        /\ filing_content[i].tag \in {"ix:nonFraction", "ix:nonNumeric"}
        /\ HasAttribute(filing_content[i], "name")
        /\ MatchClass(AttributeOf(filing_content[i], "name")) > 0
        /\ filing_content[i].body # <<>>
        /\ ~Skipped(Strip(filing_content[i].body))}

ClassOf(i) == MatchClass(AttributeOf(filing_content[i], "name"))

\* the numeric tags before the others
KindOf(i) == IF filing_content[i].tag = "ix:nonFraction" THEN 1 ELSE 2

\* C22: the fact _extract_xbrl_concept_value returns is the one of the
\* earliest usable candidate of the highest match class that has one, the
\* classes in the order namespaced name, unqualified name, name that holds
\* the concept; no candidate of a lower class is returned when a usable
\* candidate of a higher class is anywhere in the filing
C22_SearchPriority ==
    (xpc = "extracted" /\ UsableCandidates # {})
        => \E i \in UsableCandidates :
            /\ extracted_value = FactOf(filing_content, filing_content[i])
            /\ \A j \in UsableCandidates :
                  ClassOf(i) < ClassOf(j) \/ (ClassOf(i) = ClassOf(j) /\ i <= j)

\* C22 among the tags of one kind: the numeric tags come before the others,
\* and the match classes are ordered inside each kind
C22_PriorityPerKind ==
    (xpc = "extracted" /\ UsableCandidates # {})
        => \E i \in UsableCandidates :
            /\ extracted_value = FactOf(filing_content, filing_content[i])
            /\ \A j \in UsableCandidates :
                  \/ KindOf(i) < KindOf(j)
                  \/ (KindOf(i) = KindOf(j) /\ ClassOf(i) < ClassOf(j))
                  \/ (KindOf(i) = KindOf(j) /\ ClassOf(i) = ClassOf(j) /\ i <= j)

-----------------------------------------------------------------------------
(* Claims about texts that are not numbers *)

\* the candidate the search comes to first: numeric tags before the others,
\* then by match class, then by place in the filing
FirstCandidate ==
    CHOOSE i \in UsableCandidates :
        \A j \in UsableCandidates :
            \/ KindOf(i) < KindOf(j)
            \/ (KindOf(i) = KindOf(j) /\ ClassOf(i) < ClassOf(j))
            \/ (KindOf(i) = KindOf(j) /\ ClassOf(i) = ClassOf(j) /\ i <= j)

\* float() reads the text once commas, dollar signs and parentheses are
\* taken out
ParsesAsNumber(shown) == IsFloat(NumericText(Strip(shown)))

\* C23: when the text of the candidate tag is no placeholder and cannot be
\* parsed as a number, _extract_xbrl_concept_value returns a fact whose
\* value and raw_value are that text, with the source xbrl_text_extraction;
\* the candidate is not discarded and the result is not absent
C23_TextualFact ==
    (xpc = "extracted" /\ UsableCandidates # {}
        /\ ~ParsesAsNumber(filing_content[FirstCandidate].body))
        => /\ extracted_value # Absent
           /\ extracted_value.source = "xbrl_text_extraction"
           /\ extracted_value.value = Strip(filing_content[FirstCandidate].body)
           /\ extracted_value.raw_value = Strip(filing_content[FirstCandidate].body)

\* a filing whose first candidate has the text N/A and whose next candidate
\* has a number: the text is returned
C23_Witness ==
    /\ xpc = "extracted"
    /\ Len(filing_content) = 2
    /\ UsableCandidates = {1, 2}
    /\ FirstCandidate = 1
    /\ filing_content[1].body = <<"N", "/", "A">>
    /\ ParsesAsNumber(filing_content[2].body)
    /\ extracted_value.source = "xbrl_text_extraction"
    /\ extracted_value.value = <<"N", "/", "A">>

-----------------------------------------------------------------------------
(* Claims about placeholder texts *)

\* a stray date fragment: --MM-DD
IsDateFragment(t) ==
    /\ Len(t) = 7
    /\ t[1] = "-" /\ t[2] = "-" /\ t[5] = "-"
    /\ \A k \in {3, 4, 6, 7} : t[k] \in Digits

\* a text that stands in place of a number: nothing, an em-dash (U+2014),
\* two hyphens, or a stray date fragment
IsPlaceholderGlyph(shown) ==
    LET t == Strip(shown)
    IN  t = <<>> \/ t = <<"U+2014">> \/ t = <<"-", "-">> \/ IsDateFragment(t)

\* the fact tags of the filing whose name holds the concept
NamedCandidates ==
    {i \in 1..Len(filing_content) :
        /\ filing_content[i].tag \in {"ix:nonFraction", "ix:nonNumeric"}
        /\ HasAttribute(filing_content[i], "name")
        /\ MatchClass(AttributeOf(filing_content[i], "name")) > 0}

\* C24: _extract_xbrl_concept_value never returns a placeholder (an
\* em-dash, "--", a stray date fragment such as "--06-30", or an empty text)
\* as a numeric or textual fact: such a candidate is passed over, and the
\* result is absent when no other candidate is left
C24_PlaceholderDiscard ==
    xpc = "extracted"
        => /\ extracted_value # Absent => ~IsPlaceholderGlyph(extracted_value.raw_value)
           /\ (\A i \in NamedCandidates : IsPlaceholderGlyph(filing_content[i].body))
                => extracted_value = Absent

\* C24 for the em-dash alone
C24_EmDash ==
    xpc = "extracted"
        => (extracted_value # Absent => extracted_value.raw_value # <<"U+2014">>)

\* C24 for the texts the code lists (line 812) and the empty text: these are
\* passed over
C24_ListedTexts ==
    xpc = "extracted"
        => /\ extracted_value # Absent => ~Skipped(extracted_value.raw_value)
           /\ (\A i \in NamedCandidates : Skipped(Strip(filing_content[i].body)))
                => extracted_value = Absent

-----------------------------------------------------------------------------
(* Claims about the boundary snapping of chunk_content *)

\* the offsets at which the two characters of brk lie inside the window
\* [st, st + chunk_size) of the content
BreaksInside(brk, st) ==
    {k \in st..(st + chunk_size - 2) :
        /\ k + 2 <= Len(content)
        /\ content[k + 1] = brk[1]
        /\ content[k + 2] = brk[2]}

\* the last of them
LastBreak(brk, st) == CHOOSE k \in BreaksInside(brk, st) : \A j \in BreaksInside(brk, st) : j <= k

\* the break is past the midpoint of the window
PastMidpoint(brk, st) ==
    BreaksInside(brk, st) # {} /\ LastBreak(brk, st) > st + (chunk_size \div 2)

\* where the span that starts at st ends by the rule of the claim
SnappedEnd(st) ==
    IF PastMidpoint(<<"\n", "\n">>, st) THEN LastBreak(<<"\n", "\n">>, st) + 2
    ELSE IF PastMidpoint(<<".", " ">>, st) THEN LastBreak(<<".", " ">>, st) + 2
    ELSE st + chunk_size

\* the spans of the chunks made so far that stop before the end of the content
ShortSpans ==
    {i \in 1..Len(chunks) : chunks[i].metadata.end_pos < Len(content)}

\* C25: for chunk_size >= 1, every chunk span of chunk_content that stops
\* before the end of the content ends right after the last double newline
\* of its window when that break is past the midpoint start + chunk_size
\* // 2, else right after the last ". " under the same condition, else at
\* start + chunk_size; every such span is longer than chunk_size // 2
C25_BoundarySnapping ==
    chunk_size >= 1
        => \A i \in ShortSpans :
            /\ chunks[i].metadata.end_pos = SnappedEnd(chunks[i].metadata.start_pos)
            /\ chunks[i].metadata.end_pos - chunks[i].metadata.start_pos > chunk_size \div 2

\* a call that made a span cut at a paragraph break, a span cut at a
\* sentence break after a paragraph break that was too early, and a span
\* cut at start + chunk_size
C25_Witness ==
    /\ pc = "return"
    /\ chunk_size >= 1
    /\ \E i \in ShortSpans :
        LET st == chunks[i].metadata.start_pos
        IN  /\ BreaksInside(<<"\n", "\n">>, st) # {}
            /\ ~PastMidpoint(<<"\n", "\n">>, st)
            /\ PastMidpoint(<<".", " ">>, st)
            /\ chunks[i].metadata.end_pos = LastBreak(<<".", " ">>, st) + 2
            /\ chunks[i].metadata.end_pos < st + chunk_size
    /\ \E i \in ShortSpans :
        chunks[i].metadata.end_pos = chunks[i].metadata.start_pos + chunk_size

\* a call that made a span cut at a paragraph break before its hard cutoff
C25_ParagraphWitness ==
    /\ pc = "return"
    /\ chunk_size >= 1
    /\ \E i \in ShortSpans :
        LET st == chunks[i].metadata.start_pos
        IN  /\ PastMidpoint(<<"\n", "\n">>, st)
            /\ chunks[i].metadata.end_pos = LastBreak(<<"\n", "\n">>, st) + 2
            /\ chunks[i].metadata.end_pos < st + chunk_size

-----------------------------------------------------------------------------
(* Claims about the size of the chunks *)

\* the chunks of the list are no longer than cs characters
WithinSize(cks, cs) == \A i \in 1..Len(cks) : cks[i].char_count <= cs

\* C26: for chunk_size >= 1, every chunk chunk_content returns and every
\* chunk chunk_by_sections returns has char_count <= chunk_size; so has
\* every chunk of a page of stream_filing_txt_chunks
C26_SizeBound ==
    /\ chunk_size >= 1 => WithinSize(chunks, chunk_size)
    /\ (spc \in {"chunks", "response"} /\ by_chunk_size >= 1)
        => WithinSize(all_chunks, by_chunk_size)
    /\ (spc = "response" /\ by_chunk_size >= 1)
        => WithinSize(response.chunks, by_chunk_size)

\* chunk_by_sections has cut a section longer than chunk_size into chunks,
\* one of them of exactly chunk_size characters, and has kept a section of
\* at most chunk_size characters whole
C26_Witness ==
    /\ spc = "chunks"
    /\ by_chunk_size >= 1
    /\ \E i \in 1..Len(all_chunks) :
        /\ ~IsComplete(all_chunks[i])
        /\ all_chunks[i].char_count = by_chunk_size
    /\ \E i \in 1..Len(all_chunks) : IsComplete(all_chunks[i])

\* chunk_content has returned a chunk of exactly chunk_size characters and
\* a chunk that trimming made shorter than its span
C26_ContentWitness ==
    /\ pc = "return"
    /\ chunk_size >= 1
    /\ \E i \in 1..Len(chunks) : chunks[i].char_count = chunk_size
    /\ \E i \in 1..Len(chunks) :
        chunks[i].char_count < chunks[i].metadata.end_pos - chunks[i].metadata.start_pos

-----------------------------------------------------------------------------
(* Claims about the keyword categories of get_company_specific_concepts *)

OtherConcepts == <<"o", "t", "h", "e", "r", "_", "c", "o", "n", "c", "e", "p", "t", "s">>

\* the namespaces get_company_specific_concepts has returned concepts for
ReportedNamespaces ==
    IF seg_tool = "get_company_specific_concepts" /\ seg_result.success
    THEN Range(seg_result.concepts_by_namespace)
    ELSE {}

\* the keyword categories of a namespace: all but other_concepts
KeywordCategories(data) ==
    SelectSeq(data.categories, LAMBDA entry : entry.category # OtherConcepts)

\* the concepts listed under other_concepts
OtherBucket(data) ==
    UNION {Range(data.categories[i].concepts) :
            i \in {k \in 1..Len(data.categories) : data.categories[k].category = OtherConcepts}}

\* the concepts listed under a keyword category
InKeywordCategory(data) ==
    UNION {Range(KeywordCategories(data)[i].concepts) : i \in 1..Len(KeywordCategories(data))}

\* there are at most 8 keyword categories
C27_AtMostEight ==
    \A item \in ReportedNamespaces : Len(KeywordCategories(item.data)) <= MaxCategories

\* each keyword category holds at least 2 distinct concepts
C27_DistinctConcepts ==
    \A item \in ReportedNamespaces :
        \A i \in 1..Len(KeywordCategories(item.data)) :
            Cardinality(Range(KeywordCategories(item.data)[i].concepts)) >= MinCategorySize

\* every discovered concept is in a keyword category or in other_concepts
C27_EveryConceptPlaced ==
    \A item \in ReportedNamespaces :
        Range(item.data.all_concepts)
            \subseteq (InKeywordCategory(item.data) \cup OtherBucket(item.data))

\* other_concepts holds exactly the concepts that are in no keyword category
C27_OtherBucket ==
    \A item \in ReportedNamespaces :
        OtherBucket(item.data) = Range(item.data.all_concepts) \ InKeywordCategory(item.data)

\* C27: for every company namespace get_company_specific_concepts reports,
\* there are at most 8 keyword categories, each keyword category holds at
\* least 2 distinct concepts, every discovered concept is in a keyword
\* category or in other_concepts, and other_concepts holds exactly the
\* concepts that are in no keyword category
C27_KeywordBuckets ==
    /\ C27_AtMostEight
    /\ C27_DistinctConcepts
    /\ C27_EveryConceptPlaced
    /\ C27_OtherBucket

\* a namespace with more than 8 keywords of 2 concepts, 8 of them categories
C27_EightReached ==
    \E item \in ReportedNamespaces :
        /\ Len(KeywordCategories(item.data)) = MaxCategories
        /\ item.data.keyword_analysis.total_keywords_found > MaxCategories

-----------------------------------------------------------------------------
(* Claims about the company namespaces *)

\* the prefix is one of the standard set, in whatever letter case
IsStandardPrefix(ns) == LowerSeq(ns) \in revenue_standard_namespaces

\* the prefixes the tool called has reported as company namespaces
ReportedCompanyNamespaces ==
    CASE seg_tool = "get_company_specific_concepts" /\ seg_result.success
            -> Range(seg_result.company_namespaces)
      [] seg_tool = "list_company_specific_concepts"
            /\ "available_namespaces" \in DOMAIN seg_result
            -> Range(seg_result.available_namespaces)
      [] seg_tool = "get_segment_revenue_data" /\ seg_result.success
            -> {seg_result.company_namespace}
      [] OTHER -> {}

\* get_company_specific_concepts reports no standard prefix
C28_ConceptsExcluded ==
    seg_tool = "get_company_specific_concepts"
        => \A ns \in ReportedCompanyNamespaces : ~IsStandardPrefix(ns)

\* list_company_specific_concepts reports no standard prefix
C28_ListExcluded ==
    seg_tool = "list_company_specific_concepts"
        => \A ns \in ReportedCompanyNamespaces : ~IsStandardPrefix(ns)

\* get_segment_revenue_data reports no standard prefix
C28_RevenueExcluded ==
    seg_tool = "get_segment_revenue_data"
        => \A ns \in ReportedCompanyNamespaces : ~IsStandardPrefix(ns)

\* no tool reports a standard prefix written in lower case
C28_LowerCaseExcluded ==
    \A ns \in ReportedCompanyNamespaces : ns \notin revenue_standard_namespaces

\* the company-namespace set get_company_specific_concepts and
\* list_company_specific_concepts (called without a namespace filter)
\* report is the set get_segment_revenue_data derives from the same filing
C28_SameNamespaces ==
    \/ /\ seg_tool = "get_company_specific_concepts"
       /\ seg_result.success
    \/ /\ seg_tool = "list_company_specific_concepts"
       /\ seg_result.success
       /\ seg_result.filters_applied.namespace = NoneStr
    => ReportedCompanyNamespaces = CompanyNamespaces(seg_content, revenue_standard_namespaces)

\* C28: none of get_company_specific_concepts, list_company_specific_concepts
\* and get_segment_revenue_data reports a prefix of the standard set (ix, xsi,
\* xlink, link, xbrldt, xbrldi, dei, us-gaap, country, currency, exch, invest,
\* naics, sic, stpr, utr, srt, ecd, xbrli, ixt, xs) as a company namespace,
\* whatever the letter case of the xmlns declaration, and all three derive
\* the same company-namespace set from the same filing
C28_StandardExcluded ==
    /\ C28_ConceptsExcluded
    /\ C28_ListExcluded
    /\ C28_RevenueExcluded
    /\ C28_SameNamespaces

-----------------------------------------------------------------------------
(* Claims about reading a filing page by page *)

\* chunk number i of the filing, as a page shows it
ShownChunk(i) ==
    [chunk_index |-> i - 1,
     section_name |-> all_chunks[i].section_name,
     content |-> all_chunks[i].content,
     word_count |-> all_chunks[i].word_count,
     char_count |-> all_chunks[i].char_count,
     metadata |-> all_chunks[i].metadata]

\* what the client has received is the first chunks of the filing, each
\* once and in order
ReceivedInOrder ==
    /\ Len(pg_received) <= Len(all_chunks)
    /\ \A i \in 1..Len(pg_received) : pg_received[i] = ShownChunk(i)

\* the client has come to the last page
LastPage ==
    /\ response.success
    /\ response.pagination.has_next = FALSE
    /\ response.pagination.next_start = None
    /\ response.pagination.total_chunks = Len(all_chunks)

\* C29: for a fixed filing and chunk_size and any max_chunks >= 1, a client
\* that starts at start_chunk = 0 and requests pagination.next_start while
\* has_next is true receives every chunk of the filing exactly once, in
\* order, with the chunk_index values 0 .. total_chunks - 1, and reaches a
\* page with has_next = false and next_start = None after finitely many
\* requests: no more than one per chunk, and one for a filing without chunks
C29_Traversal ==
    /\ [](pg_state \in {"paging", "done"} => ReceivedInOrder)
    /\ [](pg_state = "done" => LastPage /\ Len(pg_received) = Len(all_chunks))
    /\ [](pg_requests <= Max(1, Len(all_chunks)))
    /\ <>(pg_state = "done")

\* the client has read a filing in three requests or more, the last page
\* shorter than the others
C29_Witness ==
    /\ pg_state = "done"
    /\ pg_requests >= 3
    /\ Len(response.chunks) \in 1..(pg_max_chunks - 1)
    /\ Len(pg_received) = Len(all_chunks)

\* the client has read a filing without chunks in one request
C29_EmptyWitness ==
    /\ pg_state = "done"
    /\ pg_requests = 1
    /\ all_chunks = <<>>
    /\ text # <<>>

-----------------------------------------------------------------------------
(* Claims about the TickerCache *)

\* the mappings of the successful loads
CompleteMappings ==
    {LoadCache(Unloaded, resp).cache :
        resp \in {r \in TickerResponses : ~LoadCache(Unloaded, r).raised}}

\* the cache is unloaded or the complete mapping of one successful load
C30_CompleteMapping == tc_cache = Unloaded \/ tc_cache \in CompleteMappings

\* a get_cik that raised APIError has left the cache unloaded
C30_FailedLoadUnloaded == tc_outcome = "APIError" => tc_cache = Unloaded

\* a get_cik on a loaded cache and a clear make no fetch, and a get_cik on
\* an unloaded cache makes one
C30_FetchOnlyUnloaded ==
    [][tc_fetches' = IF tc_cache = Unloaded /\ tc_call' = "get_cik"
                     THEN tc_fetches + 1 ELSE tc_fetches]_vars

\* C30: after any sequence of get_cik and clear calls in which a load may
\* fail at any point (HTTP error, bad JSON, a malformed entry met while the
\* map is built), the cache is either unloaded (None) or the complete
\* mapping of one successful load, and a failed load raises APIError and
\* leaves the cache unloaded, so that the next get_cik fetches again
C30_LoadAtomicity ==
    /\ C30_CompleteMapping
    /\ C30_FailedLoadUnloaded

\* a load that failed before the map was begun has left the cache unloaded,
\* after an earlier load and a clear
C30_FetchFailureReached ==
    /\ tc_outcome = "APIError"
    /\ tc_cache = Unloaded
    /\ tc_fetches >= 2
====
